---- MODULE Spec2Model ----
(***************************************************************************)
(* Verification model of the DesktopAI collector (Rust).                   *)
(*                                                                         *)
(* Part 1: the network bridge, collector/src/network.rs                    *)
(*   - calculate_backoff  (pure function, specification SpecBackoff)       *)
(*   - network_worker     (the worker loop, specification Spec)            *)
(*   - handle_incoming_message                                             *)
(* The worker loop is split at its suspension points into three steps:     *)
(* the reconnect block (lines 49-67), the bounded-timeout receive with the *)
(* delivery of the dequeued event (lines 70-91) and the non-blocking       *)
(* socket read (lines 94-114).  Everything the environment decides (the    *)
(* outcome of a connect, of a send, of a POST, of a read) is a             *)
(* nondeterministic choice.                                                *)
(***************************************************************************)
EXTENDS Integers, Sequences, FiniteSets, TLC

\* ------------------------------------------------------------------ bounds
\* clock granularity (ms) and the last instant the model clock reaches
TickMs == 1000
MaxTime == 2000
\* number of inputs the worker is given: events enqueued by the producers plus
\* text frames sent by the backend
MaxInputs == 2
\* number of connections the backend accepts
MaxConns == 2
\* u64::MAX, scaled down to a 16-bit word so that 2 * current_ms stays inside
\* the model checker's integers; saturation happens at this value
U64Max == 65535

\* ------------------------------------------------------- program constants
\* let mut backoff_ms: u64 = 1000;  and  backoff_ms = 1000;
BaseBackoffMs == 1000

\* ws = None
None == 0
\* a JSON field that is missing from a frame
Absent == "<absent>"

\* configurations the worker is started with
\* (ws_retry, ws_reconnect_max_ms and command_enabled of Config)
WsRetryChoices == {0, 1000}
MaxBackoffChoices == {500, 1500}

Min(a, b) == IF a <= b THEN a ELSE b

RECURSIVE Pow2(_)
Pow2(k) == IF k = 0 THEN 1 ELSE 2 * Pow2(k - 1)

VARIABLES
    \* --- network_worker
    config,         \* the Config the worker was started with
    now,            \* Instant::now()
    pc,             \* position of the worker in its loop
    ws,             \* None, or the number of the live connection
    last_attempt,   \* Instant of the last connect attempt
    backoff_ms,     \* current reconnect backoff
    fails,          \* consecutive failed connects since start / last success
    conns,          \* connections the backend has accepted so far
    rx,             \* the outbound channel (FIFO of event ids)
    closed,         \* all senders of the channel dropped
    next_ev,        \* id of the next event a producer enqueues
    delivery,       \* every socket.send(event) / send_http(event), in order
    inbound,        \* every text frame read from the socket, in order
    replies,        \* every frame handle_incoming_message sent, in order
    executed,       \* every execute_command call, in order
    read_result,    \* what socket.read() returned in the last iteration
    \* --- calculate_backoff called on its own
    current_ms, max_ms, result, bo_pc

VARIABLES
    \* --- the producers of the outbound channel: idle_worker and win_event_hook
    idle_config,    \* idle_enabled and idle_threshold (ms) of Config
    idle_pc,        \* position of idle_worker: "start", "loop" or "returned"
    last_state,     \* Option<bool>: <<>> is None, <<b>> is Some(b)
    chan,           \* every WindowEvent sent on the channel, in order
    obs_log,        \* every Some(idle_ms) observation of idle_worker, in order
    polls,          \* calls of idle_duration_ms so far
    hooks           \* calls of win_event_hook so far

VARIABLES
    \* --- uia_snapshot and the throttle it shares between threads
    uia_config,         \* uia_enabled, uia_throttle, uia_text_max, uia_max_depth
    uia_clock,          \* what Instant::now() reads
    UIA_LAST_SNAPSHOT,  \* OnceLock<Mutex<Instant>>: <<>> before get_or_init
    uia_calls,          \* every uia_snapshot call, in order: when, and granted?
    uia_last            \* <<>> or <<r>>, r the outcome of the latest call

VARIABLES
    \* --- the screenshot ring buffer
    SCREENSHOT_BUFFER,  \* OnceLock<Mutex<VecDeque>>: <<>> unset, <<buf>> set
    stored,             \* every item given to store_in_buffer, in order
    \* --- one call of a function that keeps no state of its own
    call_fn,            \* which function is called
    call_args,          \* its arguments
    call_ret,           \* what it returned
    call_pc             \* "call" before, "ret" after, "off" when unused

VARIABLES
    \* --- two threads that call into a Mutex-guarded static at the same time
    thr,                \* of each thread: its position and its local variables
    mtx                 \* the thread that holds the MutexGuard, or NoThread

prodvars == <<idle_config, idle_pc, last_state, chan, obs_log, polls, hooks>>
shotvars == <<SCREENSHOT_BUFFER, stored>>
callvars == <<call_fn, call_args, call_ret, call_pc>>
thrvars == <<thr, mtx>>
uiavars == <<uia_config, uia_clock, UIA_LAST_SNAPSHOT, uia_calls, uia_last>>

netvars == <<config, now, pc, ws, last_attempt, backoff_ms, fails,
             conns, rx, closed, next_ev, delivery, inbound, replies, executed,
             read_result>>
bovars == <<current_ms, max_ms, result, bo_pc>>
\* the variables of the other components, seen from each component
not_net == <<bovars, prodvars, uiavars, shotvars, callvars, thrvars>>
not_backoff == <<netvars, prodvars, uiavars, shotvars, callvars, thrvars>>
not_prod == <<netvars, bovars, uiavars, shotvars, callvars, thrvars>>
not_uia == <<netvars, bovars, prodvars, shotvars, callvars, thrvars>>
not_shot == <<netvars, bovars, prodvars, uiavars, callvars, thrvars>>
not_call == <<netvars, bovars, prodvars, uiavars, shotvars, thrvars>>
vars == <<netvars, bovars, prodvars, uiavars, shotvars, callvars, thrvars>>

\* ===================================================== calculate_backoff
\* u64::saturating_mul
saturating_mul(a, b) == IF a * b > U64Max THEN U64Max ELSE a * b

\* u64::wrapping_mul, what `current_ms * 2` does in a release build
wrapping_mul(a, b) == (a * b) % (U64Max + 1)

calculate_backoff_wrapping(cur, max) == Min(wrapping_mul(cur, 2), max)

calculate_backoff(cur, max) == Min(saturating_mul(cur, 2), max)

\* ---------------------------------------------- specification SpecBackoff
BackoffCurrents ==
    {0, 1, 500, 1000, 2000, 4000, 8000, 15000, 16000, 30000,
     U64Max \div 2, U64Max \div 2 + 1, U64Max - 1, U64Max}
BackoffMaxes == {0, 1, 500, 1000, 30000, U64Max - 1, U64Max}

NetIdle ==
    /\ config = [ws_retry |-> 0, ws_reconnect_max_ms |-> 0, command_enabled |-> FALSE]
    /\ now = 0 /\ pc = "off" /\ ws = None /\ last_attempt = 0
    /\ backoff_ms = BaseBackoffMs /\ fails = 0 /\ conns = 0
    /\ rx = <<>> /\ closed = FALSE /\ next_ev = 1
    /\ delivery = <<>> /\ inbound = <<>> /\ replies = <<>> /\ executed = <<>>
    /\ read_result = "none"

NoThread == "none"

ThreadsIdle == thr = <<>> /\ mtx = NoThread

ProducersIdle ==
    /\ idle_config = [idle_enabled |-> FALSE, idle_threshold |-> 0]
    /\ idle_pc = "off" /\ last_state = <<>> /\ chan = <<>> /\ obs_log = <<>>
    /\ polls = 0 /\ hooks = 0

UiaIdle ==
    /\ uia_config = [uia_enabled |-> FALSE, uia_throttle |-> 0,
                     uia_text_max |-> 0, uia_max_depth |-> 0]
    /\ uia_clock = 0 /\ UIA_LAST_SNAPSHOT = <<>>
    /\ uia_calls = <<>> /\ uia_last = <<>>

ScreenshotIdle == SCREENSHOT_BUFFER = <<>> /\ stored = <<>>

CallsIdle ==
    call_fn = "none" /\ call_args = <<>> /\ call_ret = <<>> /\ call_pc = "off"

InitBackoff ==
    /\ current_ms \in BackoffCurrents
    /\ max_ms \in BackoffMaxes
    /\ result = 0
    /\ bo_pc = "call"
    /\ NetIdle
    /\ ThreadsIdle
    /\ ProducersIdle
    /\ UiaIdle
    /\ ScreenshotIdle
    /\ CallsIdle

\* result = calculate_backoff(current_ms, max_ms)
CallBackoff ==
    /\ bo_pc = "call"
    /\ result' = calculate_backoff(current_ms, max_ms)
    /\ bo_pc' = "ret"
    /\ UNCHANGED <<current_ms, max_ms, not_backoff>>

\* backoff_ms = calculate_backoff(backoff_ms, max): the result is the next input
FeedBackoff ==
    /\ bo_pc = "ret"
    /\ result # current_ms
    /\ current_ms' = result
    /\ bo_pc' = "call"
    /\ UNCHANGED <<max_ms, result, not_backoff>>

NextBackoff == CallBackoff \/ FeedBackoff

SpecBackoff == InitBackoff /\ [][NextBackoff]_vars


\* ========================================================= network_worker
\* ---- the event model of the delivery log
\* one call of socket.send(Message::Text(payload)) or of send_http, for event ev
Attempt(ev, path, ok, conn) == [ev |-> ev, path |-> path, ok |-> ok, conn |-> conn]

\* send_http(&config.http_url, &event): one POST; a failure is only logged
send_http(event, http_ok) == <<Attempt(event, "http", http_ok, None)>>

\* the Ok(event) arm of the receive: where the dequeued event goes.
\* w is ws, send_ok the outcome of socket.send, http_ok the outcome of the POST.
\* Mutants of this arm:
\*   the connection is kept after a failed send and the event is sent again
deliver_resend(w, event, send_ok, http_ok) ==
    IF w # None
    THEN IF send_ok
         THEN [ws |-> w, log |-> <<Attempt(event, "ws", TRUE, w)>>]
         ELSE [ws |-> w,
               log |-> <<Attempt(event, "ws", FALSE, w), Attempt(event, "ws", TRUE, w)>>]
    ELSE [ws |-> w, log |-> send_http(event, http_ok)]

\*   without a connection the event is first tried on the stream
deliver_stream_first(w, event, send_ok, http_ok) ==
    IF w # None
    THEN IF send_ok
         THEN [ws |-> w, log |-> <<Attempt(event, "ws", TRUE, w)>>]
         ELSE [ws |-> None,
               log |-> <<Attempt(event, "ws", FALSE, w)>> \o send_http(event, http_ok)]
    ELSE [ws |-> w,
          log |-> <<Attempt(event, "ws", FALSE, w)>> \o send_http(event, http_ok)]

deliver(w, event, send_ok, http_ok) ==
    IF w # None
    THEN IF send_ok
         THEN [ws |-> w, log |-> <<Attempt(event, "ws", TRUE, w)>>]
         ELSE [ws |-> None,
               log |-> <<Attempt(event, "ws", FALSE, w)>> \o send_http(event, http_ok)]
    ELSE [ws |-> w, log |-> send_http(event, http_ok)]

\* rx.recv_timeout(poll_timeout) on a non-empty channel: the oldest event
recv_newest(queue) == [event |-> queue[Len(queue)], rest |-> SubSeq(queue, 1, Len(queue) - 1)]

\* (mutant: one receive drains the channel)
recv_timeout_drain(queue) == [event |-> Head(queue), rest |-> <<>>]

recv_timeout(queue) == [event |-> Head(queue), rest |-> Tail(queue)]

\* the Err arms of the receive on an empty channel: Disconnected breaks the
\* loop, Timeout goes on to the socket read
recv_empty_breaks(is_closed) == "done"

recv_empty(is_closed) == IF is_closed THEN "done" ELSE "read"

\* the arms of `match socket.read()` that carry no text: what becomes of ws
after_read_strict(w, outcome) == IF outcome \in {"error", "would_block"} THEN None ELSE w

after_read(w, outcome) == IF outcome = "error" THEN None ELSE w

\* the gate of the socket read: `if config.command_enabled` and
\* `if let Some(socket) = ws.as_mut()`
\* (mutant: the flag is not looked at)
should_read_always(cfg, w) == w # None

should_read(cfg, w) == cfg.command_enabled /\ w # None

\* the gate of the reconnect block
should_connect_strict(w, elapsed, backoff) == w = None /\ elapsed > backoff

should_connect(w, elapsed, backoff) == w = None /\ elapsed >= backoff

\* ---- execute_command, as far as the network layer sees it: a CommandResult
\* that carries the command_id of the command; ok is decided by the handler
KnownActions == {"observe", "click", "type_text", "send_keys", "open_application",
                 "focus_window", "scroll", "double_click", "right_click"}

CommandResult(command_id, ok) == [type |-> "command_result", command_id |-> command_id, ok |-> ok]

execute_command(cmd, handler_ok) ==
    IF cmd.action \in KnownActions
    THEN CommandResult(cmd.command_id, handler_ok)
    ELSE CommandResult(cmd.command_id, FALSE)

\* ---- inbound text frames
Frame(json, type, command_id, action) ==
    [json |-> json, type |-> type, command_id |-> command_id, action |-> action]

Frames ==
    { Frame(FALSE, Absent, Absent, Absent),          \* not JSON
      Frame(TRUE, "ack", Absent, Absent),            \* some other type
      Frame(TRUE, "ping", Absent, Absent),           \* {"type":"ping"}
      Frame(TRUE, "ping", "c1", "observe"),          \* a ping that also looks like a command
      Frame(TRUE, "command", "c1", "observe"),
      Frame(TRUE, "command", "c2", "observe"),
      Frame(TRUE, "command", Absent, "observe"),     \* command without command_id
      Frame(TRUE, "command", "c1", Absent) }         \* command without action

\* value.get("type").and_then(|v| v.as_str()).unwrap_or("")
msg_type(frame) == IF frame.type = Absent THEN "" ELSE frame.type

\* serde_json::from_value::<Command>(value) succeeds
\* (mutant: command_id is given a serde default like parameters and timeout_ms)
parses_as_command_default_id(frame) == frame.action # Absent

parses_as_command(frame) == frame.command_id # Absent /\ frame.action # Absent

\* a frame sent by handle_incoming_message; src is the index of the inbound
\* frame it answers, conn the connection it was written to
Sent(type, command_id, send_ok, conn, src) ==
    [type |-> type, command_id |-> command_id,
     send_ok |-> send_ok, conn |-> conn, src |-> src]

\* handle_incoming_message(text, socket, config): the frames it sends and the
\* commands it executes.  src numbers the frame, conn is the socket,
\* handler_ok the outcome of the command handler, send_ok of socket.send.
\* Mutants:
\*   a ping is not recognised before the command check
handle_incoming_message_no_ping(frame, conn, src, handler_ok, send_ok) ==
    IF ~frame.json THEN [sent |-> <<>>, exec |-> <<>>]
    ELSE IF msg_type(frame) \notin {"command", "ping"} THEN [sent |-> <<>>, exec |-> <<>>]
    ELSE IF ~parses_as_command(frame) THEN [sent |-> <<>>, exec |-> <<>>]
    ELSE LET r == execute_command(frame, handler_ok)
         IN  [sent |-> <<Sent(r.type, r.command_id, send_ok, conn, src)>>,
              exec |-> <<[command_id |-> frame.command_id, src |-> src]>>]

\*   a command_id that was already executed is skipped
handle_incoming_message_dedup(frame, conn, src, handler_ok, send_ok) ==
    IF ~frame.json THEN [sent |-> <<>>, exec |-> <<>>]
    ELSE IF msg_type(frame) = "ping"
    THEN [sent |-> <<Sent("pong", Absent, send_ok, conn, src)>>, exec |-> <<>>]
    ELSE IF msg_type(frame) # "command" THEN [sent |-> <<>>, exec |-> <<>>]
    ELSE IF ~parses_as_command(frame) THEN [sent |-> <<>>, exec |-> <<>>]
    ELSE IF \E i \in 1..Len(executed) : executed[i].command_id = frame.command_id
    THEN [sent |-> <<>>, exec |-> <<>>]
    ELSE LET r == execute_command(frame, handler_ok)
         IN  [sent |-> <<Sent(r.type, r.command_id, send_ok, conn, src)>>,
              exec |-> <<[command_id |-> frame.command_id, src |-> src]>>]

\*   a command_result whose send failed is sent once more
handle_incoming_message_resend(frame, conn, src, handler_ok, send_ok) ==
    IF ~frame.json THEN [sent |-> <<>>, exec |-> <<>>]
    ELSE IF msg_type(frame) = "ping"
    THEN [sent |-> <<Sent("pong", Absent, send_ok, conn, src)>>, exec |-> <<>>]
    ELSE IF msg_type(frame) # "command" THEN [sent |-> <<>>, exec |-> <<>>]
    ELSE IF ~parses_as_command(frame) THEN [sent |-> <<>>, exec |-> <<>>]
    ELSE LET r == execute_command(frame, handler_ok)
         IN  [sent |-> IF send_ok
                       THEN <<Sent(r.type, r.command_id, TRUE, conn, src)>>
                       ELSE <<Sent(r.type, r.command_id, FALSE, conn, src),
                              Sent(r.type, r.command_id, TRUE, conn, src)>>,
              exec |-> <<[command_id |-> frame.command_id, src |-> src]>>]

handle_incoming_message(frame, conn, src, handler_ok, send_ok) ==
    IF ~frame.json THEN [sent |-> <<>>, exec |-> <<>>]
    ELSE IF msg_type(frame) = "ping"
    THEN [sent |-> <<Sent("pong", Absent, send_ok, conn, src)>>, exec |-> <<>>]
    ELSE IF msg_type(frame) # "command" THEN [sent |-> <<>>, exec |-> <<>>]
    ELSE IF ~parses_as_command(frame) THEN [sent |-> <<>>, exec |-> <<>>]
    ELSE LET r == execute_command(frame, handler_ok)
         IN  [sent |-> <<Sent(r.type, r.command_id, send_ok, conn, src)>>,
              exec |-> <<[command_id |-> frame.command_id, src |-> src]>>]

\* ------------------------------------------------------ specification Spec
BackoffIdle == current_ms = 0 /\ max_ms = 0 /\ result = 0 /\ bo_pc = "off"

Init ==
    /\ config \in [ws_retry : WsRetryChoices,
                   ws_reconnect_max_ms : MaxBackoffChoices,
                   command_enabled : BOOLEAN]
    /\ now = 0
    /\ pc = "connect"
    /\ ws = None
    /\ last_attempt = now - config.ws_retry
    /\ backoff_ms = BaseBackoffMs
    /\ fails = 0
    /\ conns = 0
    /\ rx = <<>>
    /\ closed = FALSE
    /\ next_ev = 1
    /\ delivery = <<>>
    /\ inbound = <<>>
    /\ replies = <<>>
    /\ executed = <<>>
    /\ read_result = "none"
    /\ BackoffIdle
    /\ ThreadsIdle
    /\ ProducersIdle
    /\ UiaIdle
    /\ ScreenshotIdle
    /\ CallsIdle

\* time passes (in a blocking connect, POST or receive)
Tick ==
    /\ now + TickMs <= MaxTime
    /\ now' = now + TickMs
    /\ UNCHANGED <<config, pc, ws, last_attempt, backoff_ms, fails, conns,
                   rx, closed, next_ev, delivery, inbound, replies, executed,
                   read_result, not_net>>

\* a producer (hook callback, idle monitor) sends an event on the channel
Enqueue ==
    /\ ~closed
    /\ (next_ev - 1) + Len(inbound) < MaxInputs
    /\ rx' = Append(rx, next_ev)
    /\ next_ev' = next_ev + 1
    /\ UNCHANGED <<config, now, pc, ws, last_attempt, backoff_ms, fails,
                   conns, closed, delivery, inbound, replies, executed,
                   read_result, not_net>>

\* the last sender is dropped
CloseChannel ==
    /\ ~closed
    /\ closed' = TRUE
    /\ UNCHANGED <<config, now, pc, ws, last_attempt, backoff_ms, fails,
                   conns, rx, next_ev, delivery, inbound, replies, executed,
                   read_result, not_net>>

\* lines 49-67: reconnect if needed
Reconnect ==
    /\ pc = "connect"
    /\ pc' = "recv"
    /\ IF should_connect(ws, now - last_attempt, backoff_ms)
       THEN /\ last_attempt' = now
            /\ \/ /\ conns < MaxConns              \* connect_ws returns Some
                  /\ conns' = conns + 1
                  /\ ws' = conns + 1
                  /\ backoff_ms' = BaseBackoffMs
                  /\ fails' = 0
               \/ /\ ws' = None                    \* connect_ws returns None
                  /\ backoff_ms' = calculate_backoff(backoff_ms, config.ws_reconnect_max_ms)
                  /\ fails' = fails + 1
                  /\ UNCHANGED conns
       ELSE UNCHANGED <<ws, last_attempt, backoff_ms, fails, conns>>
    /\ UNCHANGED <<config, now, rx, closed, next_ev, delivery, inbound, replies,
                   executed, read_result, not_net>>

\* lines 70-91: rx.recv_timeout and the delivery of the dequeued event
RecvEvent ==
    /\ pc = "recv"
    /\ IF rx # <<>>
       THEN \E send_ok \in BOOLEAN, http_ok \in BOOLEAN :
              LET r == recv_timeout(rx)
                  d == deliver(ws, r.event, send_ok, http_ok)
              IN  /\ rx' = r.rest
                  /\ ws' = d.ws
                  /\ delivery' = delivery \o d.log
                  /\ pc' = "read"
       ELSE /\ pc' = recv_empty(closed)                  \* Disconnected / Timeout
            /\ UNCHANGED <<rx, ws, delivery>>
    /\ UNCHANGED <<config, now, last_attempt, backoff_ms, fails, conns,
                   closed, next_ev, inbound, replies, executed,
                   read_result, not_net>>

\* lines 94-114: the non-blocking read of the socket
ReadSocket ==
    /\ pc = "read"
    /\ pc' = "connect"
    /\ IF should_read(config, ws)
       THEN \/ /\ (next_ev - 1) + Len(inbound) < MaxInputs        \* Ok(Message::Text(text))
               /\ \E frame \in Frames, handler_ok \in BOOLEAN, send_ok \in BOOLEAN :
                    LET src == Len(inbound) + 1
                        h == handle_incoming_message(frame, ws, src, handler_ok, send_ok)
                    IN  /\ inbound' = Append(inbound, [frame |-> frame, conn |-> ws])
                        /\ replies' = replies \o h.sent
                        /\ executed' = executed \o h.exec
               /\ read_result' = "text"
               /\ UNCHANGED ws
            \/ /\ read_result' = "other"                      \* Ok(_): binary, ping, pong
               /\ ws' = after_read(ws, "other")
               /\ UNCHANGED <<inbound, replies, executed>>
            \/ /\ read_result' = "would_block"                \* Err(Io(WouldBlock))
               /\ ws' = after_read(ws, "would_block")
               /\ UNCHANGED <<inbound, replies, executed>>
            \/ /\ read_result' = "error"                      \* Err(err)
               /\ ws' = after_read(ws, "error")
               /\ UNCHANGED <<inbound, replies, executed>>
       ELSE /\ read_result' = "none"                         \* no read in this iteration
            /\ UNCHANGED <<ws, inbound, replies, executed>>
    /\ UNCHANGED <<config, now, last_attempt, backoff_ms, fails, conns,
                   rx, closed, next_ev, delivery, not_net>>

Next == Tick \/ Enqueue \/ CloseChannel \/ Reconnect \/ RecvEvent \/ ReadSocket

Spec == Init /\ [][Next]_vars


\* ================================================================ claims
Range(seq) == {seq[i] : i \in 1..Len(seq)}

\* the calls of socket.send(event) / send_http(event) made by the current step
NewAttempts == SubSeq(delivery', Len(delivery) + 1, Len(delivery'))
\* the frames handle_incoming_message sent in the current step
NewReplies == SubSeq(replies', Len(replies) + 1, Len(replies'))

\* indices of the delivery log that are about event e, on a path
AttemptsOn(log, e, path) == {i \in 1..Len(log) : log[i].ev = e /\ log[i].path = path}

\* C1: when an event is dequeued while a connection exists and its stream send
\* fails, the same step tears the connection down and hands that event to the
\* HTTP fallback exactly once; the event is never sent over the stream again
\* and never put back on the channel.
C1_SendFailureFallsBackOnce ==
    [][ /\ (/\ pc = "recv" /\ pc' = "read" /\ rx # <<>> /\ ws # None
            /\ NewAttempts # <<>>
            /\ NewAttempts[1].path = "ws" /\ ~NewAttempts[1].ok)
           => /\ ws' = None
              /\ Len(NewAttempts) = 2
              /\ NewAttempts[1].ev = Head(rx)
              /\ NewAttempts[2].ev = Head(rx)
              /\ NewAttempts[2].path = "http"
              /\ rx' = Tail(rx)
        /\ \A i \in 1..Len(delivery') :
              (delivery'[i].path = "ws" /\ ~delivery'[i].ok)
              => LET e == delivery'[i].ev
                 IN  /\ AttemptsOn(delivery', e, "ws") = {i}
                     /\ AttemptsOn(delivery', e, "http") = {i + 1}
                     /\ e \notin Range(rx')
      ]_vars

C1_Witness ==
    /\ ws = None
    /\ \E i \in 1..Len(delivery) - 1 :
          /\ delivery[i].path = "ws" /\ ~delivery[i].ok
          /\ delivery[i + 1].path = "http" /\ delivery[i + 1].ev = delivery[i].ev

\* C2 (as claimed): every dequeued event is delivered by exactly one path,
\* whatever the outcome of connects, sends, POSTs and reads.
C2_DeliveredExactlyOnce ==
    \A e \in 1..(next_ev - 1) :
        e \notin Range(rx)
        => Cardinality({i \in 1..Len(delivery) : delivery[i].ev = e /\ delivery[i].ok}) = 1

\* C3: an event dequeued while no connection exists goes to the HTTP fallback
\* exactly once, and no stream send is attempted for it.
C3_NoConnectionGoesToHttp ==
    [][ (pc = "recv" /\ pc' = "read" /\ rx # <<>> /\ ws = None)
        => /\ Len(NewAttempts) = 1
           /\ NewAttempts[1].ev = Head(rx)
           /\ NewAttempts[1].path = "http"
           /\ AttemptsOn(delivery', Head(rx), "ws") = {}
           /\ Cardinality(AttemptsOn(delivery', Head(rx), "http")) = 1
           /\ ws' = None
      ]_vars

C3_Witness ==
    /\ ws = None
    /\ \E e \in Range(delivery) : e.path = "http" /\ AttemptsOn(delivery, e.ev, "ws") = {}

\* C4: events are handed to a delivery path in the order they were enqueued:
\* every attempt for an earlier event precedes every attempt for a later one,
\* no event is attempted while an earlier one is still waiting, and the events
\* written to the stream are in enqueue order.
C4_DeliveryInEnqueueOrder ==
    /\ \A i, j \in 1..Len(delivery) :
          i < j => /\ delivery[i].ev <= delivery[j].ev
                   /\ (delivery[i].path = "ws" /\ delivery[j].path = "ws")
                        => delivery[i].ev < delivery[j].ev
    /\ \A i \in 1..Len(delivery) : \A e \in Range(rx) : delivery[i].ev < e
    /\ \A i \in 1..Len(rx) - 1 : rx[i] < rx[i + 1]

C4_Witness ==
    /\ Len(delivery) >= 2
    /\ delivery[1].ev = 1
    /\ delivery[Len(delivery)].ev = 2
    /\ delivery[Len(delivery)].path = "ws" /\ delivery[Len(delivery)].ok

\* C5 (as claimed): after k consecutive failed connects the backoff equals
\* min(1000 * 2^k, max) and never exceeds the configured maximum.
C5_BackoffFormula ==
    /\ backoff_ms = Min(BaseBackoffMs * Pow2(fails), config.ws_reconnect_max_ms)
    /\ backoff_ms <= config.ws_reconnect_max_ms

\* C6: calculate_backoff(current_ms, max_ms) = min(2 * current_ms, max_ms) in
\* unbounded arithmetic (the doubling saturates, it does not wrap), the result
\* never exceeds max_ms, and the three documented values hold.
C6_CalculateBackoff ==
    bo_pc = "ret"
    => /\ result = Min(2 * current_ms, max_ms)
       /\ result <= max_ms
       /\ (current_ms = 1000 /\ max_ms = 30000) => result = 2000
       /\ (current_ms = 16000 /\ max_ms = 30000) => result = 30000
       /\ (current_ms = 30000 /\ max_ms = 30000) => result = 30000

C6_Witness ==
    /\ bo_pc = "ret"
    /\ 2 * current_ms > U64Max
    /\ max_ms = U64Max
    /\ result = U64Max

\* connect_ws is called in the current step
ConnectCalled == conns' = conns + 1 \/ fails' = fails + 1

\* C7: a connect attempt is made in an iteration if and only if no connection
\* exists and the time since the previous attempt is at least the current
\* backoff; never while connected; and every attempt records its time.
C7_ConnectGate ==
    [][ /\ ConnectCalled <=> (/\ pc = "connect" /\ pc' = "recv"
                              /\ ws = None
                              /\ now - last_attempt >= backoff_ms)
        /\ ConnectCalled => last_attempt' = now
        /\ ~ConnectCalled => last_attempt' = last_attempt
      ]_vars

C7_Witness ==
    /\ pc = "recv"
    /\ fails >= 1
    /\ last_attempt = now
    /\ now > 0

\* C8 (as claimed): any I/O error on the connection leaves the worker
\* disconnected: a failed event send, a failed read, a failed pong send and a
\* failed command_result send.
C8_AnyIoErrorDisconnects ==
    [][ (\/ \E i \in 1..Len(NewAttempts) : NewAttempts[i].path = "ws" /\ ~NewAttempts[i].ok
         \/ \E i \in 1..Len(NewReplies) : ~NewReplies[i].send_ok
         \/ (pc = "read" /\ pc' = "connect" /\ read_result' = "error"))
        => ws' = None
      ]_vars

IsPing(frame) == frame.json /\ frame.type = "ping"

\* C9: every text frame of JSON type "ping" read while connected is answered
\* on the same connection with exactly one frame, {"type":"pong"}, and no
\* command is executed for it.
C9_PingAnsweredWithPong ==
    \A i \in 1..Len(inbound) :
        IsPing(inbound[i].frame)
        => /\ inbound[i].conn # None
           /\ \E k \in 1..Len(replies) :
                 /\ replies[k].src = i
                 /\ replies[k].type = "pong"
                 /\ replies[k].command_id = Absent
                 /\ replies[k].conn = inbound[i].conn
                 /\ \A m \in 1..Len(replies) : replies[m].src = i => m = k
           /\ \A k \in 1..Len(executed) : executed[k].src # i

C9_Witness ==
    \E i \in 1..Len(inbound) :
        /\ IsPing(inbound[i].frame)
        /\ inbound[i].frame.command_id # Absent
        /\ \E k \in 1..Len(replies) : replies[k].src = i /\ replies[k].type = "pong"

IsCommand(frame) ==
    frame.json /\ frame.type = "command" /\ frame.command_id # Absent /\ frame.action # Absent

FairSpec == Spec /\ WF_vars(Reconnect) /\ WF_vars(RecvEvent) /\ WF_vars(ReadSocket)

\* a text frame that is neither a ping nor a well-formed command
IsMalformed(frame) ==
    \/ ~frame.json
    \/ frame.type \notin {"ping", "command"}
    \/ frame.type = "command" /\ (frame.command_id = Absent \/ frame.action = Absent)

\* the step is the socket read of the worker and it returned a text frame
ReadsText == pc = "read" /\ pc' = "connect" /\ Len(inbound') = Len(inbound) + 1

\* C11: a malformed inbound text frame is ignored: nothing is executed, nothing
\* is sent, the connection stays up, the loop goes on, and the worker's state
\* is what it would be had the frame not arrived.
C11_MalformedFrameIgnored ==
    [][ (ReadsText /\ IsMalformed(inbound'[Len(inbound')].frame))
        => /\ executed' = executed
           /\ replies' = replies
           /\ ws' = ws /\ ws' # None
           /\ pc' # "done"
           /\ UNCHANGED <<config, now, last_attempt, backoff_ms, fails, conns,
                          rx, closed, next_ev, delivery>>
      ]_vars

C11_Witness ==
    /\ Len(inbound) = 2
    /\ IsMalformed(inbound[1].frame)
    /\ inbound[1].frame.type = "command"
    /\ IsCommand(inbound[2].frame)
    /\ inbound[2].conn = inbound[1].conn
    /\ Len(executed) = 1 /\ executed[1].src = 2
    /\ Len(replies) = 1 /\ replies[1].src = 2

\* C12: a would-block read leaves the connection and the worker state as they
\* are; any other read error drops the connection, the next iteration runs the
\* reconnect gate (attempt exactly when the backoff has elapsed), and an event
\* dequeued while disconnected goes to the fallback.
C12_ReadErrors ==
    [][ /\ (pc = "read" /\ pc' = "connect" /\ read_result' = "would_block")
           => /\ ws' = ws /\ ws # None
              /\ UNCHANGED <<config, now, last_attempt, backoff_ms, fails, conns, rx,
                             closed, next_ev, delivery, inbound, replies, executed>>
        /\ (pc = "read" /\ pc' = "connect" /\ read_result' = "error")
           => /\ ws # None /\ ws' = None
              /\ UNCHANGED <<config, now, last_attempt, backoff_ms, fails, conns, rx,
                             closed, next_ev, delivery, inbound, replies, executed>>
        /\ (pc = "connect" /\ pc' = "recv" /\ read_result = "error")
           => /\ ws = None
              /\ ConnectCalled <=> now - last_attempt >= backoff_ms
        /\ (pc = "recv" /\ pc' = "read" /\ read_result = "error" /\ ws = None /\ rx # <<>>)
           => /\ Len(NewAttempts) = 1
              /\ NewAttempts[1].ev = Head(rx)
              /\ NewAttempts[1].path = "http"
      ]_vars

C12_Witness ==
    /\ pc = "read" /\ read_result = "error" /\ ws = None
    /\ Len(delivery) = 2
    /\ delivery[1].path = "ws" /\ delivery[1].ok
    /\ delivery[2].path = "http"

MaxPolls == 3
\* callbacks of the foreground hook
MaxHooks == 1

\* idle_threshold values (ms) and the idle times the OS reports
IdleThresholds == {0, 2}
IdleMsValues == {1, 2, 3}
\* window handles the hook is called with (HWND is an isize)
HwndValues == {-1, 0, 26}

\* Option<T>
NoneOpt == <<>>
Some(x) == <<x>>

\* `hwnd.0 as usize`: the two's complement value, on the scaled-down word
as_usize(h) == h % (U64Max + 1)

HexDigit(d) == <<"0", "1", "2", "3", "4", "5", "6", "7",
                 "8", "9", "a", "b", "c", "d", "e", "f">>[d + 1]

RECURSIVE HexDigits(_)
HexDigits(n) == IF n < 16 THEN HexDigit(n) ELSE HexDigits(n \div 16) \o HexDigit(n % 16)

\* format!("{:#x}", hwnd.0 as usize)
hwnd_to_hex(hwnd) == "0x" \o HexDigits(as_usize(hwnd))

WindowEvent(event_type, hwnd, title, process_exe, pid, idle_ms, uia, screenshot_b64) ==
    [event_type |-> event_type, hwnd |-> hwnd, title |-> title,
     process_exe |-> process_exe, pid |-> pid, source |-> "collector",
     idle_ms |-> idle_ms, uia |-> uia, screenshot_b64 |-> screenshot_b64]

\* event.rs: build_activity_event(event_type, idle_ms)
build_activity_event(event_type, idle_ms) ==
    WindowEvent(event_type, "0x0", "", "", 0, Some(idle_ms), NoneOpt, NoneOpt)

\* windows.rs: build_event(hwnd); title, pid, process_path, uia and shot are
\* what the OS calls, uia_snapshot and capture_screenshot return.
\* Mutant: the check for a null handle is missing
build_event_any_hwnd(hwnd, title, pid, proc_path, uia, shot) ==
    Some(WindowEvent("foreground", hwnd_to_hex(hwnd), title,
                     IF pid = 0 THEN "" ELSE proc_path, pid, NoneOpt, uia, shot))

build_event(hwnd, title, pid, proc_path, uia, shot) ==
    IF hwnd = 0
    THEN NoneOpt
    ELSE Some(WindowEvent("foreground", hwnd_to_hex(hwnd), title,
                          IF pid = 0 THEN "" ELSE proc_path, pid, NoneOpt, uia, shot))

\* idle.rs:25  idle_ms >= config.idle_threshold.as_millis() as u64
now_idle_strict(idle_ms, threshold) == idle_ms > threshold

now_idle_of(idle_ms, threshold) == idle_ms >= threshold

\* idle.rs:26  last_state.map(|state| state != now_idle).unwrap_or(true)
state_changed_always(last, now_idle) == TRUE

state_changed(last, now_idle) == IF last = NoneOpt THEN TRUE ELSE last[1] # now_idle

\* idle.rs:19-21  the flag test at the top of idle_worker
idle_entry_ignores_flag(enabled) == "loop"

idle_entry(enabled) == IF ~enabled THEN "returned" ELSE "loop"

\* ------------------------------------------- specification SpecProducers
InitProducers ==
    /\ idle_config \in [idle_enabled : BOOLEAN, idle_threshold : IdleThresholds]
    /\ idle_pc = "start"
    /\ last_state = NoneOpt
    /\ chan = <<>>
    /\ obs_log = <<>>
    /\ polls = 0
    /\ hooks = 0
    /\ NetIdle
    /\ ThreadsIdle
    /\ BackoffIdle
    /\ UiaIdle
    /\ ScreenshotIdle
    /\ CallsIdle

\* idle_worker is started: lines 19-22
IdleStart ==
    /\ idle_pc = "start"
    /\ idle_pc' = idle_entry(idle_config.idle_enabled)
    /\ UNCHANGED <<idle_config, last_state, chan, obs_log, polls, hooks, not_prod>>

\* one iteration of the loop of idle_worker: lines 24-33
IdlePoll ==
    /\ idle_pc = "loop"
    /\ polls < MaxPolls
    /\ polls' = polls + 1
    /\ \/ UNCHANGED <<last_state, chan, obs_log>>          \* idle_duration_ms() = None
       \/ \E idle_ms \in IdleMsValues :                     \* Some(idle_ms)
            LET now_idle == now_idle_of(idle_ms, idle_config.idle_threshold)
            IN  /\ obs_log' = Append(obs_log, [idle_ms |-> idle_ms, now_idle |-> now_idle])
                /\ IF state_changed(last_state, now_idle)
                   THEN /\ chan' = Append(chan,
                               build_activity_event(IF now_idle THEN "idle" ELSE "active",
                                                    idle_ms))
                        /\ last_state' = Some(now_idle)
                   ELSE UNCHANGED <<last_state, chan>>
    /\ UNCHANGED <<idle_config, idle_pc, hooks, not_prod>>

\* windows.rs: win_event_hook(event, hwnd, id_object)
WinEventHook ==
    /\ hooks < MaxHooks
    /\ hooks' = hooks + 1
    /\ \E event \in {"EVENT_SYSTEM_FOREGROUND", "EVENT_OBJECT_FOCUS"},
          id_object \in {"OBJID_WINDOW", "OBJID_CLIENT"},
          hwnd \in HwndValues,
          title \in {"", "Editor"},
          pid \in {0, 4},
          uia \in {NoneOpt, Some("uia")},
          shot \in {NoneOpt, Some("b64")} :
            IF event # "EVENT_SYSTEM_FOREGROUND" \/ id_object # "OBJID_WINDOW"
            THEN UNCHANGED chan
            ELSE LET built == build_event(hwnd, title, pid, "app.exe", uia, shot)
                 IN  IF built = NoneOpt
                     THEN UNCHANGED chan
                     ELSE chan' = Append(chan, built[1])
    /\ UNCHANGED <<idle_config, idle_pc, last_state, obs_log, polls, not_prod>>

NextProducers == IdleStart \/ IdlePoll \/ WinEventHook

SpecProducers == InitProducers /\ [][NextProducers]_vars

\* ---- claims about the producers
\* the idle / active events on the channel, in order
ActivityEvents == SelectSeq(chan, LAMBDA e : e.event_type \in {"idle", "active"})

\* a sequence without its consecutive repetitions
RECURSIVE Compress(_)
Compress(seq) ==
    IF Len(seq) <= 1 THEN seq
    ELSE IF seq[1] = seq[2] THEN Compress(Tail(seq))
    ELSE <<seq[1]>> \o Compress(Tail(seq))

\* C14: idle_worker emits exactly one event for each change of the classified
\* state between successive successful observations, none while it is
\* unchanged, and one on the first successful observation; consecutive emitted
\* events have different types.
C14_OneEventPerTransition ==
    /\ [i \in 1..Len(ActivityEvents) |-> ActivityEvents[i].event_type = "idle"]
         = Compress([i \in 1..Len(obs_log) |-> obs_log[i].now_idle])
    /\ \A i \in 1..Len(ActivityEvents) - 1 :
          ActivityEvents[i].event_type # ActivityEvents[i + 1].event_type
    /\ (obs_log # <<>>) => (ActivityEvents # <<>>)

C14_Witness ==
    /\ Len(obs_log) = 3
    /\ obs_log[1].now_idle /\ obs_log[2].now_idle /\ ~obs_log[3].now_idle
    /\ Len(ActivityEvents) = 2

\* C15: an observation is classified idle exactly when idle_ms >= threshold
\* (the boundary is idle); an event is "idle" exactly when its observation was
\* classified idle, "active" otherwise, and it carries the observed idle_ms.
C15_ThresholdClassification ==
    /\ [](\A i \in 1..Len(obs_log) :
            obs_log[i].now_idle <=> obs_log[i].idle_ms >= idle_config.idle_threshold)
    /\ [](\A i \in 1..Len(ActivityEvents) :
            LET e == ActivityEvents[i]
            IN  /\ e.event_type \in {"idle", "active"}
                /\ e.idle_ms # NoneOpt
                /\ e.event_type = "idle" <=> e.idle_ms[1] >= idle_config.idle_threshold
                /\ \E k \in 1..Len(obs_log) :
                      /\ obs_log[k].idle_ms = e.idle_ms[1]
                      /\ obs_log[k].now_idle <=> e.event_type = "idle")
    /\ [][ (Len(chan') = Len(chan) + 1 /\ Len(obs_log') = Len(obs_log) + 1)
           => chan'[Len(chan')].idle_ms = Some(obs_log'[Len(obs_log')].idle_ms) ]_vars

C15_Witness ==
    /\ idle_config.idle_threshold = 2
    /\ \E i \in 1..Len(chan) : chan[i].event_type = "idle" /\ chan[i].idle_ms = Some(2)
    /\ \E i \in 1..Len(chan) : chan[i].event_type = "active" /\ chan[i].idle_ms = Some(1)

\* C16: with idle_enabled false idle_worker returns at once: it never polls
\* the idle time and never sends an event.
C16_DisabledReturnsImmediately ==
    ~idle_config.idle_enabled
    => /\ idle_pc \in {"start", "returned"}
       /\ polls = 0
       /\ obs_log = <<>>
       /\ ActivityEvents = <<>>

C16_Witness ==
    /\ ~idle_config.idle_enabled
    /\ idle_pc = "returned"
    /\ hooks = MaxHooks

\* C17: an idle / active event on the channel carries idle_ms and no window
\* identity (hwnd "0x0", empty title and process, pid 0); a foreground event
\* carries a non-zero window handle and no idle_ms.
C17_EventShape ==
    \A i \in 1..Len(chan) :
        LET e == chan[i]
        IN  /\ e.event_type \in {"idle", "active", "foreground"}
            /\ e.event_type \in {"idle", "active"}
               => /\ e.idle_ms # NoneOpt
                  /\ e.hwnd = "0x0" /\ e.title = "" /\ e.process_exe = "" /\ e.pid = 0
            /\ e.event_type = "foreground"
               => /\ e.hwnd # "0x0"
                  /\ e.idle_ms = NoneOpt

C17_Witness ==
    /\ \E i \in 1..Len(chan) : chan[i].event_type = "foreground" /\ chan[i].hwnd = "0x1a"
    /\ \E i \in 1..Len(chan) : chan[i].event_type = "idle"
    /\ \E i \in 1..Len(chan) : chan[i].event_type = "active"

\* ============================================================ uia_snapshot
\* Text is a sequence of characters; a BSTR is a sequence of UTF-16 units,
\* where "hi" and "lo" are the two halves of a surrogate pair.
MaxUiaCalls == 3
MaxUiaTime == 3
MaxDepth == 2

\* `for i in 0..length.min(20)`
MaxChildren == 20

UiaThrottles == {0, 2}
UiaTextMaxes == {2, 3}

\* String::from_utf16_lossy: an unpaired surrogate becomes U+FFFD
RECURSIVE from_utf16_lossy(_)
from_utf16_lossy(w) ==
    IF w = <<>> THEN <<>>
    ELSE IF w[1] = "hi" /\ Len(w) > 1 /\ w[2] = "lo"
            THEN <<"U+10000">> \o from_utf16_lossy(SubSeq(w, 3, Len(w)))
    ELSE IF w[1] \in {"hi", "lo"}
            THEN <<"U+FFFD">> \o from_utf16_lossy(Tail(w))
    ELSE <<w[1]>> \o from_utf16_lossy(Tail(w))

bstr_to_string(value) == from_utf16_lossy(value)

\* Option::unwrap_or_default for String, Option::unwrap_or
unwrap_or_default(opt) == IF opt = NoneOpt THEN <<>> ELSE opt[1]
unwrap_or(opt, d) == IF opt = NoneOpt THEN d ELSE opt[1]

\* getter(element).ok().map(bstr_to_string).unwrap_or_default()
get_bstr_property(read) ==
    IF read = NoneOpt THEN <<>> ELSE bstr_to_string(read[1])

is_whitespace(c) == c \in {"SP", "CR", "LF", "TAB"}

\* str::replace(from, to) for one character
replace(text, from, to) ==
    [i \in 1..Len(text) |-> IF text[i] = from THEN to ELSE text[i]]

\* text.split_whitespace().collect::<Vec<_>>().join(" ")
RECURSIVE split_join(_, _)
split_join(text, out) ==
    IF text = <<>> THEN out
    ELSE IF is_whitespace(Head(text))
            THEN split_join(Tail(text),
                            IF out = <<>> \/ out[Len(out)] = "SP"
                            THEN out ELSE out \o <<"SP">>)
    ELSE split_join(Tail(text), out \o <<Head(text)>>)

split_whitespace_join(text) ==
    LET joined == split_join(text, <<>>)
    IN  IF joined # <<>> /\ joined[Len(joined)] = "SP"
        THEN SubSeq(joined, 1, Len(joined) - 1) ELSE joined

\* str::trim
RECURSIVE trim_start(_)
trim_start(text) ==
    IF text # <<>> /\ is_whitespace(Head(text)) THEN trim_start(Tail(text))
    ELSE text

RECURSIVE trim_end(_)
trim_end(text) ==
    IF text # <<>> /\ is_whitespace(text[Len(text)])
    THEN trim_end(SubSeq(text, 1, Len(text) - 1))
    ELSE text

trim(text) == trim_end(trim_start(text))

\* bytes of one character in UTF-8
len_utf8(c) == IF c = "U+10000" THEN 4 ELSE IF c = "U+FFFD" THEN 3 ELSE 1

\* String::len: bytes, not characters
RECURSIVE str_len(_)
str_len(text) ==
    IF text = <<>> THEN 0 ELSE len_utf8(Head(text)) + str_len(Tail(text))

is_char_boundary(text, n) ==
    \E k \in 0..Len(text) : str_len(SubSeq(text, 1, k)) = n

\* String::truncate(new_len): panics when new_len is inside a character
truncate(text, new_len) ==
    IF new_len >= str_len(text) THEN [panicked |-> FALSE, value |-> text]
    ELSE IF ~is_char_boundary(text, new_len)
            THEN [panicked |-> TRUE, value |-> <<>>]
    ELSE [panicked |-> FALSE,
          value |-> SubSeq(text, 1,
                       CHOOSE k \in 0..Len(text) :
                           str_len(SubSeq(text, 1, k)) = new_len)]

\* extract_document_text(element, max_len); element.text is what
\* GetCurrentPatternAs / DocumentRange / GetText give, <<>> when one fails
extract_document_text(element, max_len) ==
    IF element.text = NoneOpt THEN [panicked |-> FALSE, value |-> NoneOpt]
    ELSE
    LET text0 == bstr_to_string(element.text[1])
        text1 == replace(replace(text0, "CR", "SP"), "LF", "SP")
        text2 == split_whitespace_join(text1)
        trimmed == trim(text2)
    IN  IF trimmed = <<>> THEN [panicked |-> FALSE, value |-> NoneOpt]
        ELSE IF str_len(trimmed) > max_len
                THEN LET t == truncate(trimmed, max_len)
                     IN  [panicked |-> t.panicked,
                          value |-> IF t.panicked THEN NoneOpt ELSE Some(t.value)]
        ELSE [panicked |-> FALSE, value |-> Some(trimmed)]

\* ToggleState -> String
toggle_name(state) ==
    CASE state = 0 -> "Off"
      [] state = 1 -> "On"
      [] state = 2 -> "Indeterminate"
      [] OTHER -> "Unknown"

\* every enumerated child, with no cap
build_children_uncapped(kids) == Len(kids)

\* length.min(20)
build_children_count(kids) == Min(Len(kids), MaxChildren)

\* `if depth < max_depth`
depth_allows(depth, max_depth) == depth < max_depth

\* build_uia_element(element, depth, max_depth): always Some(UiaElement).
\* An OS element is a record of what each COM call on it returns: <<>> for
\* a failing call, <<v>> for a value; kids[i] is what GetElement(i-1) gives.
RECURSIVE build_uia_element(_, _, _)
build_uia_element(element, depth, max_depth) ==
    LET value_pattern == element.value_pattern
        toggle_pattern == element.toggle_pattern
        patterns ==
            (IF value_pattern # NoneOpt THEN <<"Value">> ELSE <<>>)
            \o (IF toggle_pattern # NoneOpt THEN <<"Toggle">> ELSE <<>>)
            \o (IF element.invoke_pattern THEN <<"Invoke">> ELSE <<>>)
        value ==
            IF value_pattern # NoneOpt /\ value_pattern[1] # NoneOpt
            THEN Some(bstr_to_string(value_pattern[1][1])) ELSE NoneOpt
        toggle_state ==
            IF toggle_pattern # NoneOpt /\ toggle_pattern[1] # NoneOpt
            THEN Some(toggle_name(toggle_pattern[1][1])) ELSE NoneOpt
        fetched ==
            IF depth_allows(depth, max_depth) /\ element.find_all = "ok"
            THEN SelectSeq(SubSeq(element.kids, 1,
                                  build_children_count(element.kids)),
                           LAMBDA k : k # NoneOpt)
            ELSE <<>>
        children ==
            [j \in 1..Len(fetched) |->
                build_uia_element(fetched[j][1], depth + 1, max_depth)[1]]
    IN  Some([automation_id |-> get_bstr_property(element.automation_id),
              name |-> get_bstr_property(element.name),
              control_type |-> get_bstr_property(element.control_type),
              class_name |-> get_bstr_property(element.class_name),
              bounding_rect |->
                  IF element.bounding_rect = NoneOpt THEN NoneOpt
                  ELSE LET rect == element.bounding_rect[1]
                       IN  Some(<<rect[1], rect[2],
                                  rect[3] - rect[1], rect[4] - rect[2]>>),
              is_enabled |-> unwrap_or(element.is_enabled, TRUE),
              is_offscreen |-> unwrap_or(element.is_offscreen, FALSE),
              patterns |-> patterns,
              value |-> value,
              toggle_state |-> toggle_state,
              children |-> children])

\* the timestamp is never advanced: every call is granted
allow_uia_snapshot_keeps_last(throttle) ==
    LET last == IF UIA_LAST_SNAPSHOT = NoneOpt THEN uia_clock - throttle
                ELSE UIA_LAST_SNAPSHOT[1]
    IN  IF uia_clock - last < throttle
        THEN [ok |-> FALSE, last |-> Some(last)]
        ELSE [ok |-> TRUE, last |-> Some(last)]

\* allow_uia_snapshot(throttle), under the mutex of UIA_LAST_SNAPSHOT:
\* ok is the value returned, last the timestamp left behind
allow_uia_snapshot(throttle) ==
    LET last == IF UIA_LAST_SNAPSHOT = NoneOpt THEN uia_clock - throttle
                ELSE UIA_LAST_SNAPSHOT[1]
    IN  IF uia_clock - last < throttle
        THEN [ok |-> FALSE, last |-> Some(last)]
        ELSE [ok |-> TRUE, last |-> Some(uia_clock)]

\* the final test without its focused_element conjunct
is_all_empty_ignoring_element(snapshot) ==
    /\ snapshot.focused_name = <<>>
    /\ snapshot.control_type = <<>>
    /\ snapshot.document_text = <<>>
    /\ snapshot.window_tree = <<>>

\* the test that decides between None and Some(snapshot)
is_all_empty(snapshot) ==
    /\ snapshot.focused_name = <<>>
    /\ snapshot.control_type = <<>>
    /\ snapshot.document_text = <<>>
    /\ snapshot.focused_element = NoneOpt
    /\ snapshot.window_tree = <<>>

\* what a call of uia_snapshot leaves behind
UiaOutcome(granted, last, api, panicked, snapshot, ret, element) ==
    [granted |-> granted, last |-> last, api |-> api, panicked |-> panicked,
     snapshot |-> snapshot, ret |-> ret, element |-> element]

\* uia_snapshot(hwnd, config). os is what the OS answers during the call:
\* os.get_uia (CoCreateInstance succeeds), os.focused (GetFocusedElement)
\* and os.handle[1..3], the three ElementFromHandle(hwnd) calls in order.
\* snapshot is <<s>> once the struct at the end has been built.
uia_snapshot(os, cfg) ==
    IF ~cfg.uia_enabled
    THEN UiaOutcome(FALSE, UIA_LAST_SNAPSHOT, <<>>, FALSE, NoneOpt, NoneOpt, NoneOpt)
    ELSE
    LET allow == allow_uia_snapshot(cfg.uia_throttle) IN
    IF ~allow.ok
    THEN UiaOutcome(FALSE, allow.last, <<>>, FALSE, NoneOpt, NoneOpt, NoneOpt)
    ELSE IF ~os.get_uia
    THEN UiaOutcome(TRUE, allow.last, <<"CoCreateInstance">>, FALSE,
                    NoneOpt, NoneOpt, NoneOpt)
    ELSE
    LET element == IF os.focused # NoneOpt THEN os.focused ELSE os.handle[1]
        api1 == <<"CoCreateInstance", "GetFocusedElement">>
                \o (IF os.focused = NoneOpt THEN <<"ElementFromHandle">> ELSE <<>>)
    IN
    IF element = NoneOpt
    THEN UiaOutcome(TRUE, allow.last, api1, FALSE, NoneOpt, NoneOpt, NoneOpt)
    ELSE
    LET focused_name == get_bstr_property(element[1].name)
        control_type == get_bstr_property(element[1].control_type)
        text1 == extract_document_text(element[1], cfg.uia_text_max)
        retry == ~text1.panicked /\ unwrap_or_default(text1.value) = <<>>
        text2 == IF retry /\ os.handle[2] # NoneOpt
                 THEN extract_document_text(os.handle[2][1], cfg.uia_text_max)
                 ELSE text1
        api2 == api1 \o <<"CurrentName", "CurrentLocalizedControlType", "GetText">>
                \o (IF retry THEN <<"ElementFromHandle">> ELSE <<>>)
    IN
    IF text2.panicked
    THEN UiaOutcome(TRUE, allow.last, api2, TRUE, NoneOpt, NoneOpt, element)
    ELSE
    LET document_text == unwrap_or_default(text2.value)
        focused_element == build_uia_element(element[1], 0, cfg.uia_max_depth)
        window_tree ==
            IF os.handle[3] # NoneOpt
            THEN <<build_uia_element(os.handle[3][1], 0, cfg.uia_max_depth)[1]>>
            ELSE <<>>
        snapshot == [focused_name |-> focused_name,
                     control_type |-> control_type,
                     document_text |-> document_text,
                     focused_element |-> focused_element,
                     window_tree |-> window_tree]
        api3 == api2 \o <<"build_uia_element", "ElementFromHandle">>
    IN  UiaOutcome(TRUE, allow.last, api3, FALSE, Some(snapshot),
                   IF is_all_empty(snapshot) THEN NoneOpt ELSE Some(snapshot),
                   element)

\* ------------------------------------------------- OS elements of the model
Element(name, kids) ==
    [automation_id |-> NoneOpt, name |-> name, control_type |-> NoneOpt,
     class_name |-> NoneOpt, bounding_rect |-> NoneOpt,
     is_enabled |-> NoneOpt, is_offscreen |-> NoneOpt,
     value_pattern |-> NoneOpt, toggle_pattern |-> NoneOpt,
     invoke_pattern |-> FALSE, text |-> NoneOpt,
     find_all |-> "ok", kids |-> kids]

\* every read fails
Blank == [Element(NoneOpt, <<>>) EXCEPT !.find_all = "FindAll_err"]

\* every read succeeds
Rich ==
    [automation_id |-> Some(<<"i", "d">>), name |-> Some(<<"O", "K">>),
     control_type |-> Some(<<"b", "u", "t", "t", "o", "n">>),
     class_name |-> Some(<<"B">>), bounding_rect |-> Some(<<10, 20, 110, 50>>),
     is_enabled |-> Some(FALSE), is_offscreen |-> Some(TRUE),
     value_pattern |-> Some(Some(<<"v", "hi">>)),
     toggle_pattern |-> Some(Some(1)),
     invoke_pattern |-> TRUE, text |-> NoneOpt,
     find_all |-> "ok", kids |-> <<>>]

Kid(i) == Element(Some(<<"k", ToString(i)>>), <<>>)

\* one child more than the cap
Wide == Element(Some(<<"w">>), [i \in 1..(MaxChildren + 1) |-> Some(Kid(i))])

\* GetElement fails for the second child
Holes == Element(Some(<<"h">>), <<Some(Kid(1)), NoneOpt, Some(Kid(3))>>)

\* found.Length() fails
Unlisted == [Element(Some(<<"u">>), <<Some(Kid(1))>>) EXCEPT !.find_all = "Length_err"]

RECURSIVE Chain(_)
Chain(n) ==
    IF n = 0 THEN Element(Some(<<"c">>), <<>>)
    ELSE Element(Some(<<"c">>), <<Some(Chain(n - 1)), Some(Kid(n))>>)

\* one level deeper than any uia_max_depth of the model
Deep == Chain(MaxDepth + 1)

Document(wide) == [Element(NoneOpt, <<>>) EXCEPT !.text = Some(wide)]

Elements ==
    {Blank, Rich, Wide, Holes, Unlisted, Deep,
     Document(<<"SP", "LF">>),
     Document(<<"a", "CR", "LF", "SP", "b", "SP">>),
     Document(<<"hi", "a">>)}

\* answers of the OS during one call: <<get_uia, focused, handle>>
Os(get_uia, focused, handle) ==
    [get_uia |-> get_uia, focused |-> focused, handle |-> handle]

OsAnswers ==
    {Os(FALSE, NoneOpt, <<NoneOpt, NoneOpt, NoneOpt>>),
     Os(TRUE, NoneOpt, <<NoneOpt, NoneOpt, NoneOpt>>),
     Os(TRUE, NoneOpt, <<Some(Holes), NoneOpt, NoneOpt>>),
     Os(TRUE, NoneOpt, <<Some(Blank), Some(Blank), Some(Blank)>>),
     Os(TRUE, Some(Blank),
        <<NoneOpt, Some(Document(<<"a", "LF", "b">>)), NoneOpt>>),
     Os(TRUE, Some(Blank), <<NoneOpt, Some(Document(<<"lo", "lo">>)), Some(Wide)>>)}
    \cup {Os(TRUE, Some(e), <<NoneOpt, NoneOpt, NoneOpt>>) : e \in Elements}

\* ------------------------------------------------------ specification SpecUia
InitUia ==
    /\ uia_config \in [uia_enabled : BOOLEAN, uia_throttle : UiaThrottles,
                       uia_text_max : UiaTextMaxes, uia_max_depth : 0..MaxDepth]
    /\ uia_clock = 0
    /\ UIA_LAST_SNAPSHOT = NoneOpt
    /\ uia_calls = <<>>
    /\ uia_last = NoneOpt
    /\ NetIdle
    /\ ThreadsIdle
    /\ BackoffIdle
    /\ ProducersIdle
    /\ ScreenshotIdle
    /\ CallsIdle

\* time passes between two calls
UiaTick ==
    /\ uia_clock < MaxUiaTime
    /\ uia_clock' = uia_clock + 1
    /\ UNCHANGED <<uia_config, UIA_LAST_SNAPSHOT, uia_calls, uia_last>>
    /\ UNCHANGED not_uia

\* build_event (hook thread) or the observe command (network thread) calls
\* uia_snapshot(hwnd, config)
UiaSnapshot ==
    /\ Len(uia_calls) < MaxUiaCalls
    /\ \E os \in OsAnswers :
         LET r == uia_snapshot(os, uia_config)
         IN  /\ UIA_LAST_SNAPSHOT' = r.last
             /\ uia_last' = Some(r)
             /\ uia_calls' = Append(uia_calls,
                                    [at |-> uia_clock, granted |-> r.granted])
    /\ UNCHANGED <<uia_config, uia_clock>>
    /\ UNCHANGED not_uia

NextUia == UiaTick \/ UiaSnapshot

SpecUia == InitUia /\ [][NextUia]_vars

\* ------------------------------------------------------------ claims, uia
GrantsBefore(i) == {j \in 1..(i - 1) : uia_calls[j].granted}

FiveFieldsEmpty(s) ==
    /\ Len(s.focused_name) = 0
    /\ Len(s.control_type) = 0
    /\ Len(s.document_text) = 0
    /\ s.focused_element = NoneOpt
    /\ Len(s.window_tree) = 0

Max2(a, b) == IF a > b THEN a ELSE b

RECURSIVE MaxOver(_, _)
MaxOver(f, n) == IF n = 0 THEN 0 ELSE Max2(f[n], MaxOver(f, n - 1))

\* levels below the root of the deepest node
RECURSIVE Height(_)
Height(t) ==
    IF t.children = <<>> THEN 0
    ELSE 1 + MaxOver([j \in 1..Len(t.children) |-> Height(t.children[j])],
                     Len(t.children))

\* the largest number of children of one node
RECURSIVE Fanout(_)
Fanout(t) ==
    Max2(Len(t.children),
         MaxOver([j \in 1..Len(t.children) |-> Fanout(t.children[j])],
                 Len(t.children)))

\* the children GetElement delivers among the first 20 indices, in order
FirstEnumerated(e) ==
    SelectSeq(SubSeq(e.kids, 1, IF Len(e.kids) < 20 THEN Len(e.kids) ELSE 20),
              LAMBDA k : k # NoneOpt)

\* t is the tree of OS element e cut at max_depth: a failed read is the
\* default, the children are the delivered ones in order
RECURSIVE Mirrors(_, _, _, _)
Mirrors(t, e, depth, max_depth) ==
    /\ e.name = NoneOpt => t.name = <<>>
    /\ e.name # NoneOpt => Len(t.name) > 0
    /\ e.is_enabled = NoneOpt => t.is_enabled = TRUE
    /\ e.is_offscreen = NoneOpt => t.is_offscreen = FALSE
    /\ e.bounding_rect = NoneOpt => t.bounding_rect = NoneOpt
    /\ IF depth < max_depth /\ e.find_all = "ok"
       THEN /\ Len(t.children) = Len(FirstEnumerated(e))
            /\ \A j \in 1..Len(t.children) :
                  Mirrors(t.children[j], FirstEnumerated(e)[j][1],
                          depth + 1, max_depth)
       ELSE t.children = <<>>

\* C20: every tree built by build_uia_element is bounded. No node has more
\* than 20 children and they are the first enumerated ones in order; no node is
\* deeper than uia_max_depth (only the root with uia_max_depth = 0); a failing
\* read gives a default and a failing child fetch skips the child, and the
\* walk always ends with a tree.
C20_BoundedTree ==
    (uia_last # NoneOpt /\ uia_last[1].element # NoneOpt /\ ~uia_last[1].panicked) =>
        /\ uia_last[1].snapshot # NoneOpt
        /\ uia_last[1].snapshot[1].focused_element # NoneOpt
        /\ LET s == uia_last[1].snapshot[1]
               t == s.focused_element[1]
           IN  /\ Fanout(t) <= 20
               /\ Height(t) <= uia_config.uia_max_depth
               /\ uia_config.uia_max_depth = 0 => t.children = <<>>
               /\ Mirrors(t, uia_last[1].element[1], 0, uia_config.uia_max_depth)
               /\ \A w \in 1..Len(s.window_tree) :
                     /\ Fanout(s.window_tree[w]) <= 20
                     /\ Height(s.window_tree[w]) <= uia_config.uia_max_depth

\* an element with 21 children yields its first 20, in order
C20_Witness ==
    /\ uia_last # NoneOpt
    /\ uia_last[1].snapshot # NoneOpt
    /\ uia_last[1].element # NoneOpt
    /\ Len(uia_last[1].element[1].kids) = 21
    /\ Len(uia_last[1].snapshot[1].focused_element[1].children) = 20
    /\ uia_last[1].snapshot[1].focused_element[1].children[1].name = <<"k", "1">>
    /\ uia_last[1].snapshot[1].focused_element[1].children[20].name = <<"k", "20">>

\* ================================================= screenshot ring buffer
MaxStores == 7

\* const RING_BUFFER_SIZE: usize = 5
RING_BUFFER_SIZE == 5

\* the JPEG byte vectors of the model
ShotItems == {1, 2}

\* init_screenshot_buffer(): OnceLock::get_or_init with an empty VecDeque
init_screenshot_buffer(buffer) == IF buffer = NoneOpt THEN Some(<<>>) ELSE buffer

\* a full buffer drops its newest item instead of its oldest
store_in_buffer_pop_back(buffer, data) ==
    IF buffer = NoneOpt THEN buffer
    ELSE LET buf == buffer[1]
             room == IF Len(buf) >= RING_BUFFER_SIZE
                     THEN SubSeq(buf, 1, Len(buf) - 1) ELSE buf
         IN  Some(Append(room, data))

\* store_in_buffer(data) on the buffer cell: nothing when the cell is unset;
\* under the mutex, pop_front when len >= RING_BUFFER_SIZE, then push_back.
\* The lock is never poisoned: no code panics while holding it.
store_in_buffer(buffer, data) ==
    IF buffer = NoneOpt THEN buffer
    ELSE LET buf == buffer[1]
             room == IF Len(buf) >= RING_BUFFER_SIZE THEN Tail(buf) ELSE buf
         IN  Some(Append(room, data))

\* ------------------------------------------- specification SpecScreenshot
InitScreenshot ==
    /\ SCREENSHOT_BUFFER = NoneOpt
    /\ stored = <<>>
    /\ NetIdle
    /\ ThreadsIdle
    /\ BackoffIdle
    /\ ProducersIdle
    /\ UiaIdle
    /\ CallsIdle

\* run() initialises the buffer once
InitScreenshotBuffer ==
    /\ SCREENSHOT_BUFFER' = init_screenshot_buffer(SCREENSHOT_BUFFER)
    /\ UNCHANGED stored
    /\ UNCHANGED not_shot

\* capture_screenshot / encode_raw_to_base64 stores one encoded image
StoreInBuffer ==
    /\ Len(stored) < MaxStores
    /\ \E data \in ShotItems :
         /\ SCREENSHOT_BUFFER' = store_in_buffer(SCREENSHOT_BUFFER, data)
         /\ stored' = Append(stored, [data |-> data,
                                      initialised |-> SCREENSHOT_BUFFER # NoneOpt])
    /\ UNCHANGED not_shot

NextScreenshot == InitScreenshotBuffer \/ StoreInBuffer

SpecScreenshot == InitScreenshot /\ [][NextScreenshot]_vars

\* ------------------------------------------------- claims, ring buffer
\* the items stored after initialisation, in order
StoredItems ==
    LET kept == SelectSeq(stored, LAMBDA c : c.initialised)
    IN  [i \in 1..Len(kept) |-> kept[i].data]

LastOf(seq, k) == SubSeq(seq, Len(seq) - k + 1, Len(seq))

\* C21: after n store_in_buffer calls on the initialised buffer it holds
\* exactly the last min(n, 5) stored items in insertion order; so its length
\* never exceeds 5 and the oldest item is the one evicted.
C21_RingBufferKeepsLastFive ==
    SCREENSHOT_BUFFER # NoneOpt =>
        LET n == Len(StoredItems)
        IN  /\ Len(SCREENSHOT_BUFFER[1]) = (IF n < 5 THEN n ELSE 5)
            /\ Len(SCREENSHOT_BUFFER[1]) <= 5
            /\ SCREENSHOT_BUFFER[1] = LastOf(StoredItems, IF n < 5 THEN n ELSE 5)

\* seven stores, the two oldest of them evicted and different from the rest
C21_Witness ==
    /\ SCREENSHOT_BUFFER # NoneOpt
    /\ Len(StoredItems) = 7
    /\ StoredItems[1] = 1 /\ StoredItems[2] = 1
    /\ SCREENSHOT_BUFFER[1] = <<2, 2, 2, 2, 2>>

\* ===================================================== f32 arithmetic
\* A binary floating-point format with MantBits significant bits (f32 has
\* 24), round to nearest, ties to even, with infinities and NaN; the exponent
\* range is not limited. A finite value is m * 2^e with m = 0 or
\* 2^(MantBits-1) <= |m| < 2^MantBits.
MantBits == 12

Fin(m, e) == [c |-> "fin", m |-> m, e |-> e]
Inf(sign) == [c |-> "inf", m |-> sign, e |-> 0]
NaN == [c |-> "nan", m |-> 0, e |-> 0]
Zero == Fin(0, 0)

Abs(i) == IF i < 0 THEN -i ELSE i
Sign(i) == IF i < 0 THEN -1 ELSE IF i > 0 THEN 1 ELSE 0

\* the float nearest to sign * (num / den) * 2^e, for num >= 0 and den > 0
RECURSIVE f32_round(_, _, _, _)
f32_round(sign, num, den, e) ==
    IF num = 0 THEN Zero
    ELSE IF num >= den * Pow2(MantBits) THEN f32_round(sign, num, 2 * den, e + 1)
    ELSE IF num < den * Pow2(MantBits - 1) THEN f32_round(sign, 2 * num, den, e - 1)
    ELSE LET q == num \div den
             r == num % den
             up == 2 * r > den \/ (2 * r = den /\ q % 2 = 1)
             m == IF up THEN q + 1 ELSE q
         IN  IF m = Pow2(MantBits) THEN Fin(sign * Pow2(MantBits - 1), e + 1)
             ELSE Fin(sign * m, e)

\* a decimal literal num/den of the source, and `n as f32`
f32_lit(num, den) == f32_round(Sign(num), Abs(num), den, 0)
u32_as_f32(n) == f32_round(1, n, 1, 0)

f32_neg(a) == IF a.c = "nan" THEN NaN ELSE [a EXCEPT !.m = -a.m]

\* a + b
f32_add(a, b) ==
    IF a.c = "nan" \/ b.c = "nan" THEN NaN
    ELSE IF a.c = "inf" /\ b.c = "inf" THEN (IF a.m = b.m THEN a ELSE NaN)
    ELSE IF a.c = "inf" THEN a
    ELSE IF b.c = "inf" THEN b
    ELSE IF a.m = 0 THEN b
    ELSE IF b.m = 0 THEN a
    ELSE IF a.e - b.e >= MantBits + 2 THEN a
    ELSE IF b.e - a.e >= MantBits + 2 THEN b
    ELSE LET e == Min(a.e, b.e)
             sum == a.m * Pow2(a.e - e) + b.m * Pow2(b.e - e)
         IN  f32_round(Sign(sum), Abs(sum), 1, e)

\* a - b
f32_sub(a, b) == f32_add(a, f32_neg(b))

\* a * b
f32_mul(a, b) ==
    IF a.c = "nan" \/ b.c = "nan" THEN NaN
    ELSE IF a.c = "inf" \/ b.c = "inf"
         THEN (IF a.m = 0 \/ b.m = 0 THEN NaN ELSE Inf(Sign(a.m) * Sign(b.m)))
    ELSE f32_round(Sign(a.m) * Sign(b.m), Abs(a.m) * Abs(b.m), 1, a.e + b.e)

\* a / b
f32_div(a, b) ==
    IF a.c = "nan" \/ b.c = "nan" THEN NaN
    ELSE IF a.c = "inf" THEN (IF b.c = "inf" THEN NaN
                              ELSE Inf(a.m * (IF b.m < 0 THEN -1 ELSE 1)))
    ELSE IF b.c = "inf" THEN Zero
    ELSE IF b.m = 0 THEN (IF a.m = 0 THEN NaN ELSE Inf(Sign(a.m)))
    ELSE f32_round(Sign(a.m) * Sign(b.m), Abs(a.m), Abs(b.m), a.e - b.e)

\* a < b; false when either is NaN
f32_lt(a, b) ==
    IF a.c = "nan" \/ b.c = "nan" THEN FALSE
    ELSE IF a.c = "inf" \/ b.c = "inf"
         THEN (IF a.c = "inf" /\ b.c = "inf" THEN a.m < b.m
               ELSE IF a.c = "inf" THEN a.m < 0 ELSE b.m > 0)
    ELSE IF Sign(a.m) # Sign(b.m) THEN Sign(a.m) < Sign(b.m)
    ELSE IF a.m = 0 THEN FALSE
    ELSE IF a.e # b.e THEN (IF a.m > 0 THEN a.e < b.e ELSE a.e > b.e)
    ELSE a.m < b.m

f32_eq(a, b) == a.c # "nan" /\ b.c # "nan" /\ a = b
f32_le(a, b) == f32_lt(a, b) \/ f32_eq(a, b)
f32_gt(a, b) == f32_lt(b, a)
f32_ge(a, b) == f32_le(b, a)

\* f32::max and f32::min: a NaN operand is ignored
f32_max(a, b) ==
    IF a.c = "nan" THEN b ELSE IF b.c = "nan" THEN a
    ELSE IF f32_lt(a, b) THEN b ELSE a

f32_min(a, b) ==
    IF a.c = "nan" THEN b ELSE IF b.c = "nan" THEN a
    ELSE IF f32_lt(b, a) THEN b ELSE a

\* u32::MAX on the 16-bit word of the model
U32Max == U64Max

\* `a as u32`: toward zero, saturating, NaN gives 0
f32_as_u32(a) ==
    IF a.c = "nan" THEN 0
    ELSE IF a.c = "inf" THEN (IF a.m > 0 THEN U32Max ELSE 0)
    ELSE IF a.m <= 0 THEN 0
    ELSE IF a.e >= 0
         THEN (IF a.e > 16 THEN U32Max ELSE Min(a.m * Pow2(a.e), U32Max))
    ELSE IF -a.e > MantBits THEN 0
    ELSE a.m \div Pow2(-a.e)

\* ==================================================== downscale_if_needed
\* a width x height image of 3 bytes per pixel
PixelsOf(width, height) == [i \in 1..(width * height * 3) |-> (7 * i) % 256]

\* the scale factor of the smaller ratio: the other dimension overshoots
downscale_scale_min(scale_w, scale_h) == f32_min(scale_w, scale_h)

\* scale_w.max(scale_h)
downscale_scale(scale_w, scale_h) == f32_max(scale_w, scale_h)

\* downscale_if_needed(width, height, pixels, max_width, max_height)
downscale_if_needed(width, height, pixels, max_width, max_height) ==
    IF width <= max_width /\ height <= max_height
    THEN [width |-> width, height |-> height, pixels |-> pixels]
    ELSE
    LET scale_w == f32_div(u32_as_f32(width), u32_as_f32(max_width))
        scale_h == f32_div(u32_as_f32(height), u32_as_f32(max_height))
        scale == downscale_scale(scale_w, scale_h)
        new_width == f32_as_u32(f32_div(u32_as_f32(width), scale))
        new_height == f32_as_u32(f32_div(u32_as_f32(height), scale))
        new_len == new_width * new_height * 3
        new_pixels ==
            [k \in 1..new_len |->
                LET dst_idx == 3 * ((k - 1) \div 3)
                    y == ((k - 1) \div 3) \div new_width
                    x == ((k - 1) \div 3) % new_width
                    src_x == f32_as_u32(f32_mul(u32_as_f32(x), scale))
                    src_y == f32_as_u32(f32_mul(u32_as_f32(y), scale))
                    src_idx == (src_y * width + src_x) * 3
                IN  IF src_idx + 2 < Len(pixels) /\ dst_idx + 2 < new_len
                    THEN pixels[src_idx + ((k - 1) % 3) + 1]
                    ELSE 0]
    IN  [width |-> new_width, height |-> new_height, pixels |-> new_pixels]

\* image sizes and budgets of the model
DimValues == {0, 1, 3, 7, 12, 31}
MaxDimValues == {0, 1, 2, 4, 10, 16}

Call(fn, args) == [fn |-> fn, args |-> args]

DownscaleArgs(width, height, max_width, max_height) ==
    [width |-> width, height |-> height, pixels |-> PixelsOf(width, height),
     max_width |-> max_width, max_height |-> max_height]

DownscaleCalls ==
    {Call("downscale_if_needed", DownscaleArgs(w, h, mw, mh)) :
        w \in DimValues, h \in DimValues,
        mw \in MaxDimValues, mh \in MaxDimValues}
    \cup {Call("downscale_if_needed", DownscaleArgs(100, 20, 50, 100)),
          Call("downscale_if_needed", DownscaleArgs(20, 100, 100, 50))}

CallDownscale ==
    /\ call_pc = "call"
    /\ call_fn = "downscale_if_needed"
    /\ call_ret' = downscale_if_needed(call_args.width, call_args.height,
                                       call_args.pixels, call_args.max_width,
                                       call_args.max_height)
    /\ call_pc' = "ret"
    /\ UNCHANGED <<call_fn, call_args>>
    /\ UNCHANGED not_call

\* ------------------------------------------- specification SpecDownscale
InitDownscale ==
    /\ \E c \in DownscaleCalls : call_fn = c.fn /\ call_args = c.args
    /\ call_ret = <<>>
    /\ call_pc = "call"
    /\ NetIdle
    /\ ThreadsIdle
    /\ BackoffIdle
    /\ ProducersIdle
    /\ UiaIdle
    /\ ScreenshotIdle

NextDownscale ==
    \/ CallDownscale

SpecDownscale == InitDownscale /\ [][NextDownscale]_vars

Returned(fn) == call_pc = "ret" /\ call_fn = fn

\* ---------------------------------------------------- claims, downscale
\* |a / b - q| <= 1 for integers, b > 0
WithinOne(a, b, q) == Abs(a - q * b) <= b

\* C22: downscale_if_needed returns its input unchanged when the image is
\* within both budgets. Otherwise both new dimensions are within budget and
\* each is the old one divided by scale = max(width/max_width,
\* height/max_height), to within one pixel: the dimension that sets scale
\* lands on its budget and the other follows in proportion (everything is 0
\* when that budget is 0, and a 0/0 ratio takes no part in the maximum).
\* 100x20 within 50x100 gives 50x10 and 20x100 within
\* 100x50 gives 10x50.
C22_Downscale ==
    Returned("downscale_if_needed") =>
        LET a == call_args
            r == call_ret
            width_sets_scale ==
                IF a.width = 0 /\ a.max_width = 0 THEN FALSE
                ELSE IF a.height = 0 /\ a.max_height = 0 THEN TRUE
                ELSE IF a.max_width = 0 THEN TRUE
                ELSE IF a.max_height = 0 THEN FALSE
                ELSE a.width * a.max_height >= a.height * a.max_width
        IN  /\ (a.width <= a.max_width /\ a.height <= a.max_height)
                  => r = [width |-> a.width, height |-> a.height,
                          pixels |-> a.pixels]
            /\ ~(a.width <= a.max_width /\ a.height <= a.max_height)
                  => /\ r.width <= a.max_width
                     /\ r.height <= a.max_height
                     /\ Len(r.pixels) = r.width * r.height * 3
                     /\ IF width_sets_scale
                        THEN IF a.max_width = 0
                             THEN r.width = 0 /\ r.height = 0
                             ELSE /\ Abs(r.width - a.max_width) <= 1
                                  /\ WithinOne(a.height * a.max_width,
                                               a.width, r.height)
                        ELSE IF a.max_height = 0
                             THEN r.width = 0 /\ r.height = 0
                             ELSE /\ Abs(r.height - a.max_height) <= 1
                                  /\ WithinOne(a.width * a.max_height,
                                               a.height, r.width)
            /\ (a.width = 100 /\ a.height = 20 /\ a.max_width = 50
                    /\ a.max_height = 100) => (r.width = 50 /\ r.height = 10)
            /\ (a.width = 20 /\ a.height = 100 /\ a.max_width = 100
                    /\ a.max_height = 50) => (r.width = 10 /\ r.height = 50)

\* 100x20 within 50x100 came out as 50x10
C22_Witness ==
    /\ Returned("downscale_if_needed")
    /\ call_args.width = 100 /\ call_args.height = 20
    /\ call_args.max_width = 50 /\ call_args.max_height = 100
    /\ call_ret.width = 50 /\ call_ret.height = 10
    /\ Len(call_ret.pixels) = 1500

\* ============================================================ detection
\* Detection { x, y, width, height, confidence }, given in hundredths
Detection(x, y, width, height, confidence) ==
    [x |-> x, y |-> y, width |-> width, height |-> height,
     confidence |-> confidence]

\* the union taken as the sum of the two areas
iou_union_sum(a_area, b_area, inter_area) == f32_add(a_area, b_area)

\* a_area + b_area - inter_area
iou_union(a_area, b_area, inter_area) ==
    f32_sub(f32_add(a_area, b_area), inter_area)

\* iou(a, b)
iou(a, b) ==
    LET a_x2 == f32_add(a.x, a.width)
        a_y2 == f32_add(a.y, a.height)
        b_x2 == f32_add(b.x, b.width)
        b_y2 == f32_add(b.y, b.height)
        inter_x1 == f32_max(a.x, b.x)
        inter_y1 == f32_max(a.y, b.y)
        inter_x2 == f32_min(a_x2, b_x2)
        inter_y2 == f32_min(a_y2, b_y2)
        inter_w == f32_max(f32_sub(inter_x2, inter_x1), Zero)
        inter_h == f32_max(f32_sub(inter_y2, inter_y1), Zero)
        inter_area == f32_mul(inter_w, inter_h)
        a_area == f32_mul(a.width, a.height)
        b_area == f32_mul(b.width, b.height)
        union_area == iou_union(a_area, b_area, inter_area)
    IN  IF f32_le(union_area, Zero) THEN Zero
        ELSE f32_div(inter_area, union_area)

\* suppression that also fires at equality
nms_overlaps_ge(a, b, iou_threshold) == f32_ge(iou(a, b), iou_threshold)

\* iou(&detections[i], &detections[j]) > iou_threshold
nms_overlaps(a, b, iou_threshold) == f32_gt(iou(a, b), iou_threshold)

\* the inner loop of nms: the flags after detection i has been kept
nms_suppress(detections, iou_threshold, i, suppressed) ==
    [j \in 1..Len(detections) |->
        \/ suppressed[j]
        \/ /\ j > i
           /\ nms_overlaps(detections[i], detections[j], iou_threshold)]

\* a step in which a suppressed detection still suppresses later ones
nms_step_all(detections, iou_threshold, i, suppressed) ==
    nms_suppress(detections, iou_threshold, i, suppressed)

\* one iteration of the outer loop: a suppressed detection is skipped
nms_step(detections, iou_threshold, i, suppressed) ==
    IF suppressed[i] THEN suppressed
    ELSE nms_suppress(detections, iou_threshold, i, suppressed)

\* the outer loop of nms from index i on
RECURSIVE nms_from(_, _, _, _, _)
nms_from(detections, iou_threshold, i, suppressed, keep) ==
    IF i > Len(detections) THEN keep
    ELSE nms_from(detections, iou_threshold, i + 1,
                  nms_step(detections, iou_threshold, i, suppressed),
                  IF suppressed[i] THEN keep
                  ELSE Append(keep, detections[i]))

\* nms(detections, iou_threshold)
nms(detections, iou_threshold) ==
    nms_from(detections, iou_threshold, 1,
             [j \in 1..Len(detections) |-> FALSE], <<>>)

\* a filter that drops a score equal to the threshold
confidence_filter_gt(score, confidence_threshold) ==
    f32_gt(score, confidence_threshold)

\* .filter(|(_, &score)| score >= confidence_threshold)
confidence_filter(score, confidence_threshold) ==
    f32_ge(score, confidence_threshold)

\* the closure of .map(): CXCYWH in input pixels to normalized XYWH
to_detection(bbox, score, input_size) ==
    LET cx == f32_div(bbox[1], input_size)
        cy == f32_div(bbox[2], input_size)
        w == f32_div(bbox[3], input_size)
        h == f32_div(bbox[4], input_size)
    IN  Detection(f32_max(f32_sub(cx, f32_div(w, f32_lit(2, 1))), Zero),
                  f32_max(f32_sub(cy, f32_div(h, f32_lit(2, 1))), Zero),
                  f32_min(w, f32_lit(1, 1)),
                  f32_min(h, f32_lit(1, 1)),
                  score)

\* candidates.sort_by(|a, b| b.confidence.partial_cmp(&a.confidence)...):
\* a stable sort, descending
RECURSIVE sort_by_confidence(_)
sort_by_confidence(candidates) ==
    IF candidates = <<>> THEN <<>>
    ELSE LET n == Len(candidates)
             d == candidates[n]
             sorted == sort_by_confidence(SubSeq(candidates, 1, n - 1))
             idx == Cardinality({i \in 1..Len(sorted) :
                        ~f32_lt(sorted[i].confidence, d.confidence)})
         IN  SubSeq(sorted, 1, idx) \o <<d>>
                 \o SubSeq(sorted, idx + 1, Len(sorted))

\* postprocess(boxes, scores, confidence_threshold, input_size)
postprocess(boxes, scores, confidence_threshold, input_size) ==
    LET size == u32_as_f32(input_size)
        zipped == [i \in 1..Min(Len(boxes), Len(scores)) |->
                      <<boxes[i], scores[i]>>]
        passed == SelectSeq(zipped,
                    LAMBDA p : confidence_filter(p[2], confidence_threshold))
        candidates == [i \in 1..Len(passed) |->
                          to_detection(passed[i][1], passed[i][2], size)]
    IN  nms(sort_by_confidence(candidates), f32_lit(1, 2))

\* .fold(f32::NEG_INFINITY, f32::max)
RECURSIVE fold_max(_, _)
fold_max(values, acc) ==
    IF values = <<>> THEN acc
    ELSE fold_max(Tail(values), f32_max(acc, Head(values)))

\* the loop of extract_outputs from detection index i on (0-based); indexing
\* a slice out of range panics
RECURSIVE extract_loop(_, _, _, _, _, _, _)
extract_loop(boxes_flat, scores_flat, n, scores_per_det, i, boxes, scores) ==
    LET box_offset == i * 4
        score_offset == i * scores_per_det
    IN  IF i >= n THEN [kind |-> "some", boxes |-> boxes, scores |-> scores]
        ELSE IF box_offset + 3 >= Len(boxes_flat)
             THEN [kind |-> "some", boxes |-> boxes, scores |-> scores]
        ELSE IF score_offset + scores_per_det > Len(scores_flat)
             THEN [kind |-> "panic"]
        ELSE extract_loop(boxes_flat, scores_flat, n, scores_per_det, i + 1,
                 Append(boxes, SubSeq(boxes_flat, box_offset + 1,
                                      box_offset + 4)),
                 Append(scores,
                        fold_max(SubSeq(scores_flat, score_offset + 1,
                                        score_offset + scores_per_det),
                                 Inf(-1))))

\* extract_outputs(outputs); a tensor is its element type, shape and data
extract_outputs(outputs) ==
    IF Len(outputs) < 2 THEN [kind |-> "none"]
    ELSE IF ~outputs[1].is_f32 \/ ~outputs[2].is_f32 THEN [kind |-> "none"]
    ELSE
    LET boxes_shape == outputs[1].shape
        scores_shape == outputs[2].shape
        n == IF Len(boxes_shape) = 3 THEN boxes_shape[2] ELSE boxes_shape[1]
        scores_per_det == IF Len(scores_shape) = 3 THEN scores_shape[3]
                          ELSE IF Len(scores_shape) = 2 THEN scores_shape[2]
                          ELSE 1
    IN  IF Len(boxes_shape) < 2 \/ Len(scores_shape) = 0
        THEN [kind |-> "none"]
        ELSE extract_loop(outputs[1].data, outputs[2].data, n,
                          scores_per_det, 0, <<>>, <<>>)

\* ------------------------------------------------- inputs of the calls
\* most detections in one call
MaxDets == 3

SeqsUpTo(S, n) == UNION {[1..k -> S] : k \in 0..n}

\* a box given in hundredths
Box(g, confidence) ==
    Detection(f32_lit(g[1], 100), f32_lit(g[2], 100), f32_lit(g[3], 100),
              f32_lit(g[4], 100), confidence)

\* a chain of three unit squares shifted by a quarter and a pair with IoU
\* exactly 1/2
NmsBoxes ==
    {<<0, 0, 100, 100>>, <<25, 0, 100, 100>>, <<50, 0, 100, 100>>,
     <<0, 0, 50, 100>>, <<0, 0, 25, 100>>}

\* the boxes of the unit tests
TestBoxes == <<<<10, 10, 30, 30>>, <<70, 70, 20, 20>>, <<12, 12, 30, 30>>>>

IouBoxes ==
    NmsBoxes \cup Range(TestBoxes)
        \cup {<<0, 0, 10, 10>>, <<50, 50, 10, 10>>, <<20, 20, 10, 10>>,
              <<50, 50, 0, 0>>, <<0, 10, 30, 20>>, <<0, 30, 10, 10>>,
              <<50, 50, 0, 10>>}

IouCalls ==
    {Call("iou", [a |-> Box(g, f32_lit(9, 10)), b |-> Box(h, f32_lit(8, 10))]) :
        g \in IouBoxes, h \in IouBoxes}

\* the i-th detection of a confidence-sorted list has confidence (10 - i)/10
NmsCalls ==
    {Call("nms", [detections |-> [i \in 1..Len(gs) |->
                                     Box(gs[i], f32_lit(10 - i, 10))],
                  iou_threshold |-> f32_lit(1, 2)]) :
        gs \in SeqsUpTo(NmsBoxes, MaxDets) \cup {TestBoxes}}

\* model outputs in input pixels with their scores in tenths: the boxes of
\* the unit tests, two overlapping boxes, a score equal to the threshold, a
\* centre outside the input and a negative width
RawBox(cx, cy, w, h) ==
    <<f32_lit(cx, 1), f32_lit(cy, 1), f32_lit(w, 1), f32_lit(h, 1)>>

PostPairs ==
    {<<RawBox(288, 288, 100, 100), f32_lit(8, 10)>>,
     <<RawBox(100, 100, 50, 50), f32_lit(1, 10)>>,
     <<RawBox(300, 300, 100, 100), f32_lit(7, 10)>>,
     <<RawBox(450, 100, 50, 50), f32_lit(3, 10)>>}

OddPairs ==
    {<<RawBox(288, 288, 576, 576), f32_lit(9, 10)>>,
     <<RawBox(1152, 288, 100, 100), f32_lit(6, 10)>>,
     <<RawBox(288, 288, 0 - 100, 100), f32_lit(5, 10)>>}

PostprocessCalls ==
    {Call("postprocess",
          [boxes |-> [i \in 1..Len(ps) |-> ps[i][1]],
           scores |-> [i \in 1..Len(ps) |-> ps[i][2]],
           confidence_threshold |-> f32_lit(3, 10),
           input_size |-> 576]) :
        ps \in SeqsUpTo(PostPairs, MaxDets)
                 \cup {<<p, q>> : p \in OddPairs, q \in PostPairs \cup OddPairs}}

\* a tensor holds as many values as its shape says
RECURSIVE Product(_)
Product(shape) ==
    IF shape = <<>> THEN 1 ELSE Head(shape) * Product(Tail(shape))

Tensor(is_f32, shape) ==
    [is_f32 |-> is_f32, shape |-> shape,
     data |-> [i \in 1..Product(shape) |-> f32_lit(((i * 7) % 11) - 3, 10)]]

BoxShapes ==
    {<<1, n, 4>> : n \in 0..MaxDets} \cup {<<n, 4>> : n \in 0..MaxDets}
        \cup {<<3, 2>>, <<4>>, <<1, 1, 2, 4>>}

ScoreShapes ==
    {<<1, m, k>> : m \in 0..MaxDets, k \in 0..2}
        \cup {<<m, k>> : m \in 0..MaxDets, k \in 1..2}
        \cup {<<m>> : m \in 0..MaxDets} \cup {<<>>}

ExtractCalls ==
    {Call("extract_outputs",
          [outputs |-> <<Tensor(TRUE, bs), Tensor(TRUE, ss)>>]) :
        bs \in BoxShapes, ss \in ScoreShapes}
    \cup {Call("extract_outputs", [outputs |-> os]) :
            os \in {<<>>, <<Tensor(TRUE, <<1, 1, 4>>)>>,
                    <<Tensor(FALSE, <<1, 1, 4>>), Tensor(TRUE, <<1, 1, 1>>)>>,
                    <<Tensor(TRUE, <<1, 1, 4>>), Tensor(FALSE, <<1, 1, 1>>)>>,
                    <<Tensor(TRUE, <<1, 1, 4>>), Tensor(TRUE, <<1, 1, 2>>),
                      Tensor(TRUE, <<1>>)>>}}

DetectionCalls == IouCalls \cup NmsCalls \cup PostprocessCalls \cup ExtractCalls

CallIou ==
    /\ call_pc = "call"
    /\ call_fn = "iou"
    /\ call_ret' = iou(call_args.a, call_args.b)
    /\ call_pc' = "ret"
    /\ UNCHANGED <<call_fn, call_args>>
    /\ UNCHANGED not_call

CallNms ==
    /\ call_pc = "call"
    /\ call_fn = "nms"
    /\ call_ret' = nms(call_args.detections, call_args.iou_threshold)
    /\ call_pc' = "ret"
    /\ UNCHANGED <<call_fn, call_args>>
    /\ UNCHANGED not_call

CallPostprocess ==
    /\ call_pc = "call"
    /\ call_fn = "postprocess"
    /\ call_ret' = postprocess(call_args.boxes, call_args.scores,
                               call_args.confidence_threshold,
                               call_args.input_size)
    /\ call_pc' = "ret"
    /\ UNCHANGED <<call_fn, call_args>>
    /\ UNCHANGED not_call

CallExtractOutputs ==
    /\ call_pc = "call"
    /\ call_fn = "extract_outputs"
    /\ call_ret' = extract_outputs(call_args.outputs)
    /\ call_pc' = "ret"
    /\ UNCHANGED <<call_fn, call_args>>
    /\ UNCHANGED not_call

\* ------------------------------------------- specification SpecDetection
InitDetection ==
    /\ \E c \in DetectionCalls : call_fn = c.fn /\ call_args = c.args
    /\ call_ret = <<>>
    /\ call_pc = "call"
    /\ NetIdle
    /\ ThreadsIdle
    /\ BackoffIdle
    /\ ProducersIdle
    /\ UiaIdle
    /\ ScreenshotIdle

NextDetection ==
    \/ CallIou
    \/ CallNms
    \/ CallPostprocess
    \/ CallExtractOutputs

SpecDetection == InitDetection /\ [][NextDetection]_vars

\* ---------------------------------------------------- claims, detection
One == f32_lit(1, 1)
Half == f32_lit(1, 2)

\* exact arithmetic on finite values: the integer a / 2^e
Scaled(a, e) == IF a.m = 0 THEN 0 ELSE a.m * Pow2(a.e - e)
MinExp(S) ==
    LET es == {a.e : a \in {b \in S : b.m # 0}}
    IN  IF es = {} THEN 0 ELSE CHOOSE e \in es : \A f \in es : e <= f

\* x + y = z, x + y <= z without rounding
ExactSumIs(x, y, z) ==
    LET e == MinExp({x, y, z})
    IN  Scaled(x, e) + Scaled(y, e) = Scaled(z, e)
ExactSumLe(x, y, z) ==
    LET e == MinExp({x, y, z})
    IN  Scaled(x, e) + Scaled(y, e) <= Scaled(z, e)

\* the corners x + width and y + height are computed without rounding
ExactCorners(a) ==
    /\ ExactSumIs(a.x, a.width, f32_add(a.x, a.width))
    /\ ExactSumIs(a.y, a.height, f32_add(a.y, a.height))

ZeroArea(a) == a.width.m = 0 \/ a.height.m = 0
NonNegative(a) == a.width.m >= 0 /\ a.height.m >= 0

\* the two rectangles share no interior point
NoOverlap(a, b) ==
    \/ ExactSumLe(a.x, a.width, b.x)
    \/ ExactSumLe(b.x, b.width, a.x)
    \/ ExactSumLe(a.y, a.height, b.y)
    \/ ExactSumLe(b.y, b.height, a.y)

SameBox(a, b) ==
    a.x = b.x /\ a.y = b.y /\ a.width = b.width /\ a.height = b.height

\* the detection postprocess makes of the i-th (box, score) pair
PairDetection(i) ==
    to_detection(call_args.boxes[i], call_args.scores[i],
                 u32_as_f32(call_args.input_size))
PairPasses(i) ==
    f32_ge(call_args.scores[i], call_args.confidence_threshold)
PairFails(i) ==
    f32_lt(call_args.scores[i], call_args.confidence_threshold)

\* C23 as stated: a pair with score < confidence_threshold has no detection
\* in the output of postprocess, and a pair with score >= confidence_threshold
\* (equality included) is in the output.
C23_ConfidenceFilter ==
    Returned("postprocess") =>
        \A i \in 1..Len(call_args.boxes) :
            /\ PairFails(i) => PairDetection(i) \notin Range(call_ret)
            /\ PairPasses(i) => PairDetection(i) \in Range(call_ret)

\* C23 amended: a pair with score < confidence_threshold has no detection in
\* the output of postprocess; a pair with score >= confidence_threshold
\* (equality included) is in the output unless non-maximum suppression
\* removes it, that is unless its IoU with a kept detection of at least its
\* confidence exceeds 0.5.
C23_ConfidenceFilterThenNms ==
    Returned("postprocess") =>
        \A i \in 1..Len(call_args.boxes) :
            /\ PairFails(i) => PairDetection(i) \notin Range(call_ret)
            /\ PairPasses(i) =>
                \/ PairDetection(i) \in Range(call_ret)
                \/ \E k \in Range(call_ret) :
                      /\ f32_ge(k.confidence, PairDetection(i).confidence)
                      /\ f32_gt(iou(k, PairDetection(i)), Half)

\* a score equal to the threshold came through, a score below it did not,
\* and a score above it was suppressed
C23_Witness ==
    /\ Returned("postprocess")
    /\ \E i \in 1..Len(call_args.boxes) :
          /\ call_args.scores[i] = call_args.confidence_threshold
          /\ PairDetection(i) \in Range(call_ret)
    /\ \E i \in 1..Len(call_args.boxes) :
          PairPasses(i) /\ PairDetection(i) \notin Range(call_ret)

\* the IoU of the i-th and j-th input of nms
InputIou(i, j) == iou(call_args.detections[i], call_args.detections[j])
Kept(i) == call_args.detections[i] \in Range(call_ret)

\* when the IoU of i < j equals the threshold, j is not removed because of i:
\* if j is missing, some other kept box overlaps it
NotRemovedAtEquality ==
    \A i, j \in 1..Len(call_args.detections) :
        (i < j /\ InputIou(i, j) = call_args.iou_threshold /\ Kept(i)
            /\ ~Kept(j))
        => \E k \in 1..(j - 1) :
              /\ k # i
              /\ Kept(k)
              /\ f32_gt(InputIou(k, j), call_args.iou_threshold)

\* C24 as stated: in nms over a confidence-sorted list, of two boxes whose
\* IoU is strictly above the threshold the lower-confidence one is always
\* removed; at IoU equal to the threshold neither is removed because of the
\* other.
C24_OverlapAlwaysRemoved ==
    Returned("nms") =>
        /\ \A i, j \in 1..Len(call_args.detections) :
              (i < j /\ f32_gt(InputIou(i, j), call_args.iou_threshold))
                  => ~Kept(j)
        /\ NotRemovedAtEquality

\* C24 amended: of two boxes whose IoU is strictly above the threshold the
\* lower-confidence one is removed whenever the higher-confidence one is
\* kept (a box that was itself removed removes nothing); at IoU equal to the
\* threshold neither is removed because of the other.
C24_OverlapRemovedByKept ==
    Returned("nms") =>
        /\ \A i, j \in 1..Len(call_args.detections) :
              (i < j /\ f32_gt(InputIou(i, j), call_args.iou_threshold)
                  /\ Kept(i))
                  => ~Kept(j)
        /\ NotRemovedAtEquality

\* a kept box removed an overlapping one, and two boxes with IoU exactly at
\* the threshold were both kept
C24_Witness ==
    /\ Returned("nms")
    /\ \E i, j \in 1..Len(call_args.detections) :
          /\ i < j
          /\ f32_gt(InputIou(i, j), call_args.iou_threshold)
          /\ Kept(i) /\ ~Kept(j)
    /\ \E i, j \in 1..Len(call_args.detections) :
          /\ i < j
          /\ InputIou(i, j) = call_args.iou_threshold
          /\ Kept(i) /\ Kept(j)

\* C25: nms is greedy and one-directional: a box is in the output exactly
\* when its IoU with every earlier kept box is <= the threshold. The first
\* box is kept, the output is the input restricted to the kept boxes in input
\* order, no two output boxes have IoU above the threshold, and applying nms
\* to the output changes nothing.
C25_NmsGreedy ==
    Returned("nms") =>
        LET ds == call_args.detections
            t == call_args.iou_threshold
        IN  /\ \A i \in 1..Len(ds) :
                  Kept(i) <=>
                      \A j \in 1..(i - 1) :
                          Kept(j) => f32_le(InputIou(j, i), t)
            /\ Len(ds) > 0 => (Len(call_ret) > 0 /\ call_ret[1] = ds[1])
            /\ call_ret = SelectSeq(ds, LAMBDA d : d \in Range(call_ret))
            /\ \A p, q \in 1..Len(call_ret) :
                  p # q => ~f32_gt(iou(call_ret[p], call_ret[q]), t)
            /\ nms(call_ret, t) = call_ret

\* the third box overlaps the second, which the first removed, and is kept
C25_Witness ==
    /\ Returned("nms")
    /\ Len(call_args.detections) = 3
    /\ f32_gt(InputIou(1, 2), call_args.iou_threshold)
    /\ f32_gt(InputIou(2, 3), call_args.iou_threshold)
    /\ call_ret = <<call_args.detections[1], call_args.detections[3]>>

\* the parts of the iou contract that hold whatever the rounding: symmetry,
\* 0 without overlap or area, a finite result, never negative for boxes of
\* non-negative width and height
IouRoundingFree ==
    LET a == call_args.a
        b == call_args.b
    IN  /\ iou(b, a) = call_ret
        /\ call_ret.c = "fin"
        /\ (NoOverlap(a, b) \/ ZeroArea(a) \/ ZeroArea(b)) => call_ret = Zero
        /\ f32_le(iou_union(f32_mul(a.width, a.height),
                            f32_mul(b.width, b.height), Zero), Zero)
              => call_ret = Zero
        /\ (NonNegative(a) /\ NonNegative(b)) => f32_ge(call_ret, Zero)

InUnit(v) == f32_ge(v, Zero) /\ f32_le(v, One)

\* C27: every Detection returned by postprocess has x, y, width and height
\* within [0, 1], and the box centred in the input that spans it maps to
\* (0, 0, 1, 1).
C27_NormalizedRange ==
    Returned("postprocess") =>
        /\ \A d \in Range(call_ret) :
              InUnit(d.x) /\ InUnit(d.y) /\ InUnit(d.width) /\ InUnit(d.height)
        /\ \A i \in 1..Len(call_args.boxes) :
              call_args.boxes[i] = RawBox(288, 288, 576, 576)
                  => SameBox(PairDetection(i),
                             Detection(Zero, Zero, One, One, Zero))

\* C28: extract_outputs never panics; every detection it returns had its
\* four box values and its class scores inside the output arrays, and its
\* confidence is the largest of its class scores.
C28_ExtractInBounds ==
    Returned("extract_outputs") =>
        /\ call_ret.kind # "panic"
        /\ call_ret.kind = "some" =>
            LET boxes_flat == call_args.outputs[1].data
                scores_flat == call_args.outputs[2].data
                shape == call_args.outputs[2].shape
                per == IF Len(shape) = 3 THEN shape[3]
                       ELSE IF Len(shape) = 2 THEN shape[2] ELSE 1
            IN  /\ Len(call_ret.scores) = Len(call_ret.boxes)
                /\ 4 * Len(call_ret.boxes) <= Len(boxes_flat)
                /\ per * Len(call_ret.scores) <= Len(scores_flat)
                /\ \A i \in 1..Len(call_ret.scores) :
                      LET classes == {scores_flat[(i - 1) * per + k] :
                                          k \in 1..per}
                      IN  IF classes = {} THEN call_ret.scores[i] = Inf(-1)
                          ELSE /\ call_ret.scores[i] \in classes
                               /\ \A u \in classes :
                                     f32_le(u, call_ret.scores[i])

\* ====================================================== command handlers
\* serde_json values of a parameter map; a missing key is JsonAbsent
JsonAbsent == [t |-> "absent"]
JsonStr(v) == [t |-> "str", v |-> v]
JsonInt(v) == [t |-> "int", v |-> v]

ParamKeys == {"name", "automation_id", "x", "y", "text", "keys",
              "application", "title", "process", "direction", "amount"}

\* parameters.get(key).and_then(|v| v.as_str()).unwrap_or(default)
str_param(cmd, key, default) ==
    IF cmd.parameters[key].t = "str" THEN cmd.parameters[key].v ELSE default

\* parameters.get(key).and_then(|v| v.as_i64()).unwrap_or(default)
i64_param(cmd, key, default) ==
    IF cmd.parameters[key].t = "int" THEN cmd.parameters[key].v ELSE default

\* CommandResult::success and CommandResult::failure; an error message is
\* the sequence of its words
success(command_id, result_map) ==
    [msg_type |-> "command_result", command_id |-> command_id, ok |-> TRUE,
     result |-> result_map, screenshot_b64 |-> NoneOpt, uia |-> NoneOpt,
     error |-> NoneOpt]

failure(command_id, error) ==
    [msg_type |-> "command_result", command_id |-> command_id, ok |-> FALSE,
     result |-> {}, screenshot_b64 |-> NoneOpt, uia |-> NoneOpt,
     error |-> <<error>>]

\* what a handler hands back: its CommandResult and the OS calls it made
Handled(res, os) == [res |-> res, os |-> os]

\* a dispatcher whose last arm runs the observe handler
unknown_action_observes(cmd) ==
    Handled(success(cmd.command_id, {<<"action", "observe">>}),
            <<[call |-> "GetForegroundWindow", arg |-> <<>>]>>)

\* the `_` arm of execute_command
unknown_action(cmd) ==
    Handled(failure(cmd.command_id, <<"unknown", "action", ":", cmd.action>>),
            <<>>)

\* ---- #[cfg(not(windows))]
\* a stub that reports success
handle_observe_stub_ok(cmd) ==
    Handled(success(cmd.command_id, {}), <<>>)

handle_observe_not_windows(cmd) ==
    Handled(failure(cmd.command_id, <<"observe", "requires", "Windows">>), <<>>)

handle_click_not_windows(cmd) ==
    LET name == str_param(cmd, "name", "")
        automation_id == str_param(cmd, "automation_id", "")
        x == i64_param(cmd, "x", -1)
        y == i64_param(cmd, "y", -1)
    IN  IF name = "" /\ automation_id = "" /\ (x < 0 \/ y < 0)
        THEN Handled(failure(cmd.command_id,
                 <<"click", "requires", "'name'", ",", "'automation_id'", ",",
                   "or", "'x'/'y'", "parameters">>), <<>>)
        ELSE Handled(failure(cmd.command_id,
                 <<"click", "requires", "Windows">>), <<>>)

handle_type_text_not_windows(cmd) ==
    Handled(failure(cmd.command_id, <<"type_text", "requires", "Windows">>),
            <<>>)

handle_send_keys_not_windows(cmd) ==
    Handled(failure(cmd.command_id, <<"send_keys", "requires", "Windows">>),
            <<>>)

handle_open_application_not_windows(cmd) ==
    Handled(failure(cmd.command_id,
                    <<"open_application", "requires", "Windows">>), <<>>)

handle_focus_window_not_windows(cmd) ==
    Handled(failure(cmd.command_id, <<"focus_window", "requires", "Windows">>),
            <<>>)

handle_scroll_not_windows(cmd) ==
    Handled(failure(cmd.command_id, <<"scroll", "requires", "Windows">>), <<>>)

handle_double_click_not_windows(cmd) ==
    Handled(failure(cmd.command_id, <<"double_click", "requires", "Windows">>),
            <<>>)

handle_right_click_not_windows(cmd) ==
    Handled(failure(cmd.command_id, <<"right_click", "requires", "Windows">>),
            <<>>)

\* ---- #[cfg(windows)]: the handlers as in the source.  What Windows answers
\* to the calls a handler makes is the input os; config is the Config.
\* A string a handler looks into (keys, title, process) is the sequence of
\* its characters: "ctrl+c" is <<"c","t","r","l","+","c">>, "" is <<>>.
UpperChars == <<"A", "B", "C", "D", "E", "F", "G", "H", "I", "J", "K", "L", "M",
                "N", "O", "P", "Q", "R", "S", "T", "U", "V", "W", "X", "Y", "Z">>
LowerChars == <<"a", "b", "c", "d", "e", "f", "g", "h", "i", "j", "k", "l", "m",
                "n", "o", "p", "q", "r", "s", "t", "u", "v", "w", "x", "y", "z">>
DigitChars == <<"0", "1", "2", "3", "4", "5", "6", "7", "8", "9">>

\* char::to_lowercase, on the characters used here
char_to_lowercase(c) ==
    IF \E i \in 1..26 : UpperChars[i] = c
    THEN LowerChars[CHOOSE i \in 1..26 : UpperChars[i] = c]
    ELSE c

\* str::to_lowercase
to_lowercase(s) == [i \in 1..Len(s) |-> char_to_lowercase(s[i])]

\* str::contains(&pattern)
contains(s, pattern) ==
    \E i \in 0..(Len(s) - Len(pattern)) :
        SubSeq(s, i + 1, i + Len(pattern)) = pattern

\* str::split(sep).collect(): the parts between the separators, empty parts
\* included
RECURSIVE split(_, _)
split(s, sep) ==
    IF \A i \in 1..Len(s) : s[i] # sep
    THEN <<s>>
    ELSE LET i == CHOOSE k \in 1..Len(s) :
                      s[k] = sep /\ \A j \in 1..(k - 1) : s[j] # sep
         IN  <<SubSeq(s, 1, i - 1)>> \o split(SubSeq(s, i + 1, Len(s)), sep)

\* the number of bits an i32 is given here (an i64 is any integer)
I32Bits == 16

\* `v as i32` for an i64 v: the low bits, as a signed number
as_i32(v) ==
    ((v + Pow2(I32Bits - 1) + Pow2(I32Bits)) % Pow2(I32Bits)) - Pow2(I32Bits - 1)

\* one call of the Windows API made by a handler
OsCall(call, arg) == [call |-> call, arg |-> arg]

\* the INPUT structures handed to SendInput
MouseInput(x, y, flags) == [type |-> "mouse", x |-> x, y |-> y, flags |-> flags]
KeyInput(vk, flags) == [type |-> "keyboard", vk |-> vk, flags |-> flags]

\* `if config.enable_screenshot { capture_screenshot(..) } else { None }`
post_action_screenshot(res, cfg, os) ==
    [res EXCEPT !.screenshot_b64 =
        IF cfg.enable_screenshot THEN os.capture ELSE NoneOpt]

\* click_at(x, y): one SendInput with a left button down and up at (x, y)
click_at(x, y) ==
    <<OsCall("SendInput", <<MouseInput(x, y, "leftdown"),
                            MouseInput(x, y, "leftup")>>)>>

\* the centre of a bounding rectangle
rect_center(r) == [x |-> (r.left + r.right) \div 2, y |-> (r.top + r.bottom) \div 2]

handle_observe(cmd, cfg, os) ==
    LET res == success(cmd.command_id,
                       {<<"action", "observe">>, <<"window_title", "title">>,
                        <<"process_exe", "process">>})
    IN  Handled([res EXCEPT
                   !.screenshot_b64 = IF cfg.enable_screenshot
                                      THEN os.capture ELSE NoneOpt,
                   !.uia = IF cfg.uia_enabled THEN os.snapshot ELSE NoneOpt],
                <<OsCall("GetForegroundWindow", <<>>)>>)

\* the condition of the element search: the automation id if there is one,
\* the name otherwise
\* (mutant: the name is preferred)
uia_condition_prefers_name(name, automation_id) ==
    IF name # ""
    THEN [prop |-> "UIA_NamePropertyId", val |-> name]
    ELSE [prop |-> "UIA_AutomationIdPropertyId", val |-> automation_id]

uia_condition(name, automation_id) ==
    IF automation_id # ""
    THEN [prop |-> "UIA_AutomationIdPropertyId", val |-> automation_id]
    ELSE [prop |-> "UIA_NamePropertyId", val |-> name]

handle_click(cmd, cfg, os) ==
    LET name == str_param(cmd, "name", "")
        automation_id == str_param(cmd, "automation_id", "")
        x == as_i32(i64_param(cmd, "x", -1))
        y == as_i32(i64_param(cmd, "y", -1))
        clicked_name == IF name # "" THEN name ELSE automation_id
        find == <<OsCall("FindFirst", uia_condition(name, automation_id))>>
    IN  IF name = "" /\ automation_id = ""
        THEN IF x < 0 \/ y < 0
             THEN Handled(failure(cmd.command_id,
                      <<"click", "requires", "'name'", ",", "'automation_id'",
                        ",", "or", "'x'/'y'", "parameters">>), <<>>)
             ELSE Handled(post_action_screenshot(
                              success(cmd.command_id,
                                      {<<"x", x>>, <<"y", y>>,
                                       <<"method", "coordinate">>}),
                              cfg, os),
                          click_at(x, y))
        ELSE IF os.uia_init = "init"
        THEN Handled(failure(cmd.command_id,
                 <<"UIA", "init", "failed", ":", "error">>), <<>>)
        ELSE IF os.uia_init = "root"
        THEN Handled(failure(cmd.command_id,
                 <<"GetRootElement", "failed", ":", "error">>), <<>>)
        ELSE IF os.uia_init = "condition"
        THEN Handled(failure(cmd.command_id,
                 <<"CreatePropertyCondition", "failed", ":", "error">>), <<>>)
        ELSE IF ~os.find
        THEN Handled(failure(cmd.command_id,
                 <<"element", "not", "found", ":", "error">>), find)
        ELSE IF os.invoke = "fail"
        THEN Handled(failure(cmd.command_id,
                 <<"Invoke", "failed", ":", "error">>),
                 find \o <<OsCall("Invoke", <<>>)>>)
        ELSE IF os.invoke = "ok"
        THEN Handled(post_action_screenshot(
                         success(cmd.command_id,
                                 {<<"clicked", clicked_name>>,
                                  <<"method", "invoke">>}),
                         cfg, os),
                     find \o <<OsCall("Invoke", <<>>)>>)
        ELSE IF os.rect = NoneOpt
        THEN Handled(failure(cmd.command_id,
                 <<"bounding", "rect", "failed", ":", "error">>), find)
        ELSE LET c == rect_center(os.rect[1])
             IN  Handled(post_action_screenshot(
                             success(cmd.command_id,
                                     {<<"clicked", clicked_name>>,
                                      <<"method", "coordinate">>,
                                      <<"x", c.x>>, <<"y", c.y>>}),
                             cfg, os),
                         find \o click_at(c.x, c.y))

\* try_set_value(automation_id, text) returns Some: the element was found
\* and its ValuePattern took the text
try_set_value(automation_id, text, os) ==
    os.uia_init = "ok" /\ os.find /\ os.set_value

\* send_text_via_input(text): the text goes out through SendInput
send_text_via_input(text) ==
    <<OsCall("SendInput", <<[type |-> "unicode", text |-> text]>>)>>

handle_type_text(cmd, cfg, os) ==
    LET text == str_param(cmd, "text", "")
        target_id == str_param(cmd, "automation_id", "")
    IN  IF text = ""
        THEN Handled(failure(cmd.command_id,
                 <<"type_text", "requires", "'text'", "parameter">>), <<>>)
        ELSE IF target_id # "" /\ try_set_value(target_id, text, os)
        THEN Handled(post_action_screenshot(
                         success(cmd.command_id,
                                 {<<"typed", text>>,
                                  <<"method", "value_pattern">>,
                                  <<"target", target_id>>}),
                         cfg, os),
                     <<OsCall("FindFirst",
                              [prop |-> "UIA_AutomationIdPropertyId",
                               val |-> target_id]),
                       OsCall("SetValue", text)>>)
        ELSE Handled(post_action_screenshot(
                         success(cmd.command_id,
                                 {<<"typed", text>>, <<"method", "send_input">>}),
                         cfg, os),
                     send_text_via_input(text))

\* the keys parse_vk knows by name (f1..f12 among them), with their virtual key
NamedKeys ==
    { <<"VK_RETURN", <<"e","n","t","e","r">> >>,
      <<"VK_RETURN", <<"r","e","t","u","r","n">> >>,
      <<"VK_ESCAPE", <<"e","s","c","a","p","e">> >>,
      <<"VK_ESCAPE", <<"e","s","c">> >>,
      <<"VK_TAB", <<"t","a","b">> >>,
      <<"VK_SPACE", <<"s","p","a","c","e">> >>,
      <<"VK_BACK", <<"b","a","c","k","s","p","a","c","e">> >>,
      <<"VK_DELETE", <<"d","e","l","e","t","e">> >>,
      <<"VK_DELETE", <<"d","e","l">> >>,
      <<"VK_HOME", <<"h","o","m","e">> >>,
      <<"VK_END", <<"e","n","d">> >>,
      <<"VK_PRIOR", <<"p","a","g","e","u","p">> >>,
      <<"VK_NEXT", <<"p","a","g","e","d","o","w","n">> >>,
      <<"VK_UP", <<"u","p">> >>,
      <<"VK_DOWN", <<"d","o","w","n">> >>,
      <<"VK_LEFT", <<"l","e","f","t">> >>,
      <<"VK_RIGHT", <<"r","i","g","h","t">> >>,
      <<"VK_F1", <<"f","1">> >>,
      <<"VK_F2", <<"f","2">> >>,
      <<"VK_F3", <<"f","3">> >>,
      <<"VK_F4", <<"f","4">> >>,
      <<"VK_F5", <<"f","5">> >>,
      <<"VK_F6", <<"f","6">> >>,
      <<"VK_F7", <<"f","7">> >>,
      <<"VK_F8", <<"f","8">> >>,
      <<"VK_F9", <<"f","9">> >>,
      <<"VK_F10", <<"f","1","0">> >>,
      <<"VK_F11", <<"f","1","1">> >>,
      <<"VK_F12", <<"f","1","2">> >> }

\* parse_vk(key): Some(virtual key) for a letter, a digit or a named key,
\* None otherwise.  The virtual key of a letter or digit is written as that
\* character.
parse_vk(key) ==
    LET k == to_lowercase(key)
    IN  IF Len(k) = 1 /\ (\E i \in 1..26 : LowerChars[i] = k[1])
        THEN Some(k[1])
        ELSE IF Len(k) = 1 /\ (\E i \in 1..10 : DigitChars[i] = k[1])
        THEN Some(k[1])
        ELSE IF \E n \in NamedKeys : n[2] = k
        THEN Some((CHOOSE n \in NamedKeys : n[2] = k)[1])
        ELSE NoneOpt

\* the modifier arms of the match in handle_send_keys: Some(virtual key) for
\* a modifier word, None for any other part
modifier_vk(part) ==
    LET p == to_lowercase(part)
    IN  IF p \in {<<"c","t","r","l">>, <<"c","o","n","t","r","o","l">>}
        THEN Some("VK_CONTROL")
        ELSE IF p = <<"a","l","t">> THEN Some("VK_MENU")
        ELSE IF p = <<"s","h","i","f","t">> THEN Some("VK_SHIFT")
        ELSE IF p \in {<<"w","i","n">>, <<"w","i","n","d","o","w","s">>}
        THEN Some("VK_LWIN")
        ELSE NoneOpt

\* the loop over the parts: modifiers are collected in order, every other
\* part overwrites key_code with what parse_vk makes of it
RECURSIVE parse_combo(_, _, _)
parse_combo(parts, modifiers, key_code) ==
    IF parts = <<>>
    THEN [modifiers |-> modifiers, key_code |-> key_code]
    ELSE IF modifier_vk(Head(parts)) # NoneOpt
    THEN parse_combo(Tail(parts),
                     Append(modifiers, modifier_vk(Head(parts))[1]), key_code)
    ELSE parse_combo(Tail(parts), modifiers, parse_vk(Head(parts)))

\* Vec::iter().rev()
rev(s) == [i \in 1..Len(s) |-> s[Len(s) + 1 - i]]

\* one SendInput per key event
key_events(vks, flags) ==
    [i \in 1..Len(vks) |-> OsCall("SendInput", <<KeyInput(vks[i], flags)>>)]

\* the three blocks of SendInput calls of handle_send_keys
\* (mutant: the modifiers are released in the order they were pressed)
send_combo_release_in_order(modifiers, vk) ==
    key_events(modifiers, "down")
    \o key_events(<<vk>>, "down") \o key_events(<<vk>>, "keyup")
    \o key_events(modifiers, "keyup")

send_combo(modifiers, vk) ==
    key_events(modifiers, "down")
    \o key_events(<<vk>>, "down") \o key_events(<<vk>>, "keyup")
    \o key_events(rev(modifiers), "keyup")

handle_send_keys(cmd, cfg, os) ==
    LET keys == str_param(cmd, "keys", <<>>)
        combo == parse_combo(split(keys, "+"), <<>>, NoneOpt)
    IN  IF keys = <<>>
        THEN Handled(failure(cmd.command_id,
                 <<"send_keys", "requires", "'keys'", "parameter">>), <<>>)
        ELSE IF combo.key_code = NoneOpt
        THEN Handled(failure(cmd.command_id,
                 <<"unknown", "key", ":">> \o keys), <<>>)
        ELSE Handled(post_action_screenshot(
                         success(cmd.command_id, {<<"keys", keys>>}),
                         cfg, os),
                     send_combo(combo.modifiers, combo.key_code[1]))

handle_open_application(cmd, cfg, os) ==
    LET app == str_param(cmd, "application", "")
    IN  IF app = ""
        THEN Handled(failure(cmd.command_id,
                 <<"open_application", "requires", "'application'",
                   "parameter">>), <<>>)
        ELSE IF os.shell_code <= 32
        THEN Handled(failure(cmd.command_id,
                 <<"ShellExecute", "failed", "with", "code", os.shell_code>>),
                 <<OsCall("ShellExecuteW", app)>>)
        ELSE Handled(post_action_screenshot(
                         success(cmd.command_id, {<<"started", app>>}),
                         cfg, os),
                     <<OsCall("ShellExecuteW", app)>>)

\* the enumeration loop of handle_focus_window over the top-level windows,
\* in the order FindWindowW / GetWindow(GW_HWNDNEXT) yield them: the number
\* of the first window with a non-empty title that contains the pattern and
\* is visible, 0 if there is none
\* (mutant: the visibility of the window is not asked for)
find_target_any(top_windows, pattern_lower) ==
    LET hits == {i \in 1..Len(top_windows) :
                    /\ Len(top_windows[i].title) > 0
                    /\ contains(to_lowercase(top_windows[i].title), pattern_lower)}
    IN  IF hits = {} THEN 0 ELSE CHOOSE i \in hits : \A j \in hits : i <= j

find_target(top_windows, pattern_lower) ==
    LET hits == {i \in 1..Len(top_windows) :
                    /\ Len(top_windows[i].title) > 0
                    /\ contains(to_lowercase(top_windows[i].title), pattern_lower)
                    /\ top_windows[i].visible}
    IN  IF hits = {} THEN 0 ELSE CHOOSE i \in hits : \A j \in hits : i <= j

handle_focus_window(cmd, cfg, os) ==
    LET title_pattern == str_param(cmd, "title", <<>>)
        process_pattern == str_param(cmd, "process", <<>>)
        pattern_lower == to_lowercase(title_pattern)
        target == IF title_pattern # <<>>
                  THEN find_target(os.top_windows, pattern_lower)
                  ELSE 0
        enumerated == IF title_pattern # <<>>
                      THEN <<OsCall("FindWindowW", <<>>)>>
                      ELSE <<>>
    IN  IF title_pattern = <<>> /\ process_pattern = <<>>
        THEN Handled(failure(cmd.command_id,
                 <<"focus_window", "requires", "'title'", "or", "'process'",
                   "parameter">>), <<>>)
        ELSE IF target = 0
        THEN Handled(failure(cmd.command_id,
                 <<"window", "not", "found", "matching", ":">> \o title_pattern),
                 enumerated)
        ELSE Handled(post_action_screenshot(
                         success(cmd.command_id, {<<"focused", title_pattern>>}),
                         cfg, os),
                     enumerated \o <<OsCall("SetForegroundWindow", target)>>)

\* (mutant: the wheel is turned before the direction is looked at)
handle_scroll_acts_first(cmd, cfg, os) ==
    LET direction == str_param(cmd, "direction", "down")
        amount == as_i32(i64_param(cmd, "amount", 3))
        wheel == <<OsCall("SendInput",
                          <<[type |-> "mouse", flags |-> "wheel",
                             mouseData |-> 120 * amount]>>)>>
    IN  IF direction \notin {"up", "down"}
        THEN Handled(failure(cmd.command_id,
                 <<"unknown", "scroll", "direction", ":", direction>>), wheel)
        ELSE Handled(post_action_screenshot(
                         success(cmd.command_id,
                                 {<<"direction", direction>>,
                                  <<"amount", amount>>}),
                         cfg, os),
                     wheel)

handle_scroll(cmd, cfg, os) ==
    LET direction == str_param(cmd, "direction", "down")
        amount == as_i32(i64_param(cmd, "amount", 3))
        wheel_delta == IF direction = "up" THEN 120 * amount ELSE -120 * amount
    IN  IF direction \notin {"up", "down"}
        THEN Handled(failure(cmd.command_id,
                 <<"unknown", "scroll", "direction", ":", direction>>), <<>>)
        ELSE Handled(post_action_screenshot(
                         success(cmd.command_id,
                                 {<<"direction", direction>>,
                                  <<"amount", amount>>}),
                         cfg, os),
                     <<OsCall("SendInput",
                              <<[type |-> "mouse", flags |-> "wheel",
                                 mouseData |-> wheel_delta]>>)>>)

\* resolve_uia_coords(name, automation_id): the centre of the bounding
\* rectangle of the element found, None when any step fails
resolve_uia_coords(name, automation_id, os) ==
    IF os.uia_init = "ok" /\ os.find /\ os.rect # NoneOpt
    THEN Some(rect_center(os.rect[1]))
    ELSE NoneOpt

\* double_click and right_click differ in the button events only
handle_pointer_click(cmd, cfg, os, action) ==
    LET name == str_param(cmd, "name", "")
        automation_id == str_param(cmd, "automation_id", "")
        x == as_i32(i64_param(cmd, "x", -1))
        y == as_i32(i64_param(cmd, "y", -1))
        coords == resolve_uia_coords(name, automation_id, os)
        looked_up == IF os.uia_init = "ok"
                     THEN <<OsCall("FindFirst", uia_condition(name, automation_id))>>
                     ELSE <<>>
        buttons(px, py) ==
            <<OsCall("SendInput",
                     IF action = "double_click"
                     THEN <<MouseInput(px, py, "leftdown"),
                            MouseInput(px, py, "leftup"),
                            MouseInput(px, py, "leftdown"),
                            MouseInput(px, py, "leftup")>>
                     ELSE <<MouseInput(px, py, "rightdown"),
                            MouseInput(px, py, "rightup")>>)>>
    IN  IF name # "" \/ automation_id # ""
        THEN IF coords = NoneOpt
             THEN Handled(failure(cmd.command_id,
                              <<"element", "not", "found", ":",
                                IF name # "" THEN name ELSE automation_id>>),
                          looked_up)
             ELSE Handled(post_action_screenshot(
                              success(cmd.command_id,
                                      {<<"x", coords[1].x>>, <<"y", coords[1].y>>}),
                              cfg, os),
                          looked_up \o buttons(coords[1].x, coords[1].y))
        ELSE IF x < 0 \/ y < 0
        THEN Handled(failure(cmd.command_id,
                 <<action, "requires", "'name'", ",", "'automation_id'",
                   ",", "or", "'x'/'y'", "parameters">>), <<>>)
        ELSE Handled(post_action_screenshot(
                         success(cmd.command_id, {<<"x", x>>, <<"y", y>>}),
                         cfg, os),
                     buttons(x, y))

handle_double_click(cmd, cfg, os) ==
    handle_pointer_click(cmd, cfg, os, "double_click")
handle_right_click(cmd, cfg, os) ==
    handle_pointer_click(cmd, cfg, os, "right_click")

\* execute_command with every handler spelled out, for the build target
\* `windows`
execute_command_dispatch(cmd, windows, cfg, os) ==
    CASE cmd.action = "observe" ->
            IF windows THEN handle_observe(cmd, cfg, os)
            ELSE handle_observe_not_windows(cmd)
      [] cmd.action = "click" ->
            IF windows THEN handle_click(cmd, cfg, os)
            ELSE handle_click_not_windows(cmd)
      [] cmd.action = "type_text" ->
            IF windows THEN handle_type_text(cmd, cfg, os)
            ELSE handle_type_text_not_windows(cmd)
      [] cmd.action = "send_keys" ->
            IF windows THEN handle_send_keys(cmd, cfg, os)
            ELSE handle_send_keys_not_windows(cmd)
      [] cmd.action = "open_application" ->
            IF windows THEN handle_open_application(cmd, cfg, os)
            ELSE handle_open_application_not_windows(cmd)
      [] cmd.action = "focus_window" ->
            IF windows THEN handle_focus_window(cmd, cfg, os)
            ELSE handle_focus_window_not_windows(cmd)
      [] cmd.action = "scroll" ->
            IF windows THEN handle_scroll(cmd, cfg, os)
            ELSE handle_scroll_not_windows(cmd)
      [] cmd.action = "double_click" ->
            IF windows THEN handle_double_click(cmd, cfg, os)
            ELSE handle_double_click_not_windows(cmd)
      [] cmd.action = "right_click" ->
            IF windows THEN handle_right_click(cmd, cfg, os)
            ELSE handle_right_click_not_windows(cmd)
      [] OTHER -> unknown_action(cmd)

\* (mutant: a None is written as null instead of being skipped)
serialize_nulls(res) ==
    {<<"type", res.msg_type>>, <<"command_id", res.command_id>>,
     <<"ok", res.ok>>, <<"result", res.result>>,
     <<"screenshot_b64", res.screenshot_b64>>, <<"uia", res.uia>>,
     <<"error", res.error>>}

\* serde_json::to_string(&result): the keys of the frame and their values;
\* msg_type is renamed to "type", an optional field that is None is skipped
serialize(res) ==
    {<<"type", res.msg_type>>, <<"command_id", res.command_id>>,
     <<"ok", res.ok>>, <<"result", res.result>>}
    \cup (IF res.screenshot_b64 = NoneOpt THEN {}
          ELSE {<<"screenshot_b64", res.screenshot_b64[1]>>})
    \cup (IF res.uia = NoneOpt THEN {} ELSE {<<"uia", res.uia[1]>>})
    \cup (IF res.error = NoneOpt THEN {} ELSE {<<"error", res.error[1]>>})

\* ------------------------------------------------- inputs of the calls
NoParams == [k \in ParamKeys |-> JsonAbsent]

\* maps over the keys that pick the target of a click; the last x is a
\* negative i64 whose low bits are the i32 5
ClickMaps ==
    {[NoParams EXCEPT !["name"] = n, !["automation_id"] = a,
                      !["x"] = x, !["y"] = y] :
        n \in {JsonAbsent, JsonStr(""), JsonStr("OK")},
        a \in {JsonAbsent, JsonStr("btn1"), JsonInt(7)},
        x \in {JsonAbsent, JsonInt(-1), JsonInt(0), JsonInt(300), JsonStr("300"),
               JsonInt(5 - Pow2(I32Bits))},
        y \in {JsonAbsent, JsonInt(-1), JsonInt(450)}}

TextMaps ==
    {[NoParams EXCEPT !["text"] = t, !["automation_id"] = a] :
        t \in {JsonStr(""), JsonStr("hello"), JsonInt(1)},
        a \in {JsonAbsent, JsonStr(""), JsonStr("edit1")}}

\* combos: ctrl+c, Ctrl+Shift+S, enter, f5, ctrl+bogus, ctrl, ctrl+, c+ctrl,
\* a+b, b+, alt+win+f12, ctrl+ctrl+c, the empty string
KeyCombos ==
    { <<"c","t","r","l","+","c">>,
      <<"C","t","r","l","+","S","h","i","f","t","+","S">>,
      <<"e","n","t","e","r">>,
      <<"f","5">>,
      <<"c","t","r","l","+","b","o","g","u","s">>,
      <<"c","t","r","l">>,
      <<"c","t","r","l","+">>,
      <<"c","+","c","t","r","l">>,
      <<"a","+","b">>,
      <<"b","+">>,
      <<"a","l","t","+","w","i","n","+","f","1","2">>,
      <<"c","t","r","l","+","c","t","r","l","+","c">>,
      <<>> }

KeysMaps ==
    {[NoParams EXCEPT !["keys"] = JsonStr(k)] : k \in KeyCombos}
    \cup {[NoParams EXCEPT !["keys"] = JsonInt(3)]}

AppMaps ==
    {[NoParams EXCEPT !["application"] = a] :
        a \in {JsonStr(""), JsonStr("notepad"), JsonInt(0)}}

\* patterns: "note", "NOTE", "pad", "zzz", ""
FocusMaps ==
    {[NoParams EXCEPT !["title"] = t, !["process"] = p] :
        t \in {JsonAbsent, JsonStr(<<>>), JsonStr(<<"n","o","t","e">>),
               JsonStr(<<"N","O","T","E">>), JsonStr(<<"p","a","d">>),
               JsonStr(<<"z","z","z">>)},
        p \in {JsonAbsent, JsonStr(<<"n","o","t","e">>)}}

ScrollMaps ==
    {[NoParams EXCEPT !["direction"] = d, !["amount"] = a] :
        d \in {JsonAbsent, JsonStr("up"), JsonStr("down"), JsonStr("sideways"),
               JsonStr("")},
        a \in {JsonAbsent, JsonInt(5), JsonInt(-2)}}

\* maps over the keys of the other handlers
OtherMaps == TextMaps \cup KeysMaps \cup AppMaps \cup FocusMaps \cup ScrollMaps

Actions == KnownActions \cup {"nonexistent", "", "Click"}

\* a top-level window
Win(title, visible) == [title |-> title, visible |-> visible]

\* desktops: a hidden "Notes" above a visible "Notepad" above a visible
\* "Pad"; an untitled window and a visible "Pad"; a hidden "Notepad" only
Desktops ==
    { << Win(<<"N","o","t","e","s">>, FALSE),
         Win(<<"N","o","t","e","p","a","d">>, TRUE),
         Win(<<"P","a","d">>, TRUE) >>,
      << Win(<<>>, TRUE), Win(<<"P","a","d">>, TRUE) >>,
      << Win(<<"N","o","t","e","p","a","d">>, FALSE) >>,
      << >> }

\* Windows on a good day
OsFine ==
    [uia_init |-> "ok", find |-> TRUE, invoke |-> "ok",
     rect |-> <<[left |-> 10, right |-> 30, top |-> 20, bottom |-> 40]>>,
     set_value |-> TRUE, shell_code |-> 42,
     top_windows |-> << Win(<<"N","o","t","e","s">>, FALSE),
                        Win(<<"N","o","t","e","p","a","d">>, TRUE),
                        Win(<<"P","a","d">>, TRUE) >>,
     capture |-> <<"b64">>, snapshot |-> <<"tree">>]

\* and with one thing going wrong
WinAnswers ==
    {OsFine}
    \cup {[OsFine EXCEPT !.uia_init = u] : u \in {"init", "root", "condition"}}
    \cup {[OsFine EXCEPT !.find = FALSE]}
    \cup {[OsFine EXCEPT !.invoke = i] : i \in {"fail", "none"}}
    \cup {[OsFine EXCEPT !.invoke = "none", !.rect = NoneOpt]}
    \cup {[OsFine EXCEPT !.set_value = FALSE]}
    \cup {[OsFine EXCEPT !.shell_code = c] : c \in {2, 32}}
    \cup {[OsFine EXCEPT !.top_windows = d] : d \in Desktops}
    \cup {[OsFine EXCEPT !.capture = NoneOpt, !.snapshot = NoneOpt]}

Configs == [enable_screenshot : BOOLEAN, uia_enabled : BOOLEAN]

DefaultConfig == [enable_screenshot |-> TRUE, uia_enabled |-> TRUE]

\* the Config and the answers of Windows a command runs under
Environments ==
    {[config |-> c, os |-> OsFine] : c \in Configs}
    \cup {[config |-> DefaultConfig, os |-> o] : o \in WinAnswers}

\* the click maps that are run under every environment
ClickTargets ==
    {[NoParams EXCEPT !["name"] = n, !["automation_id"] = a,
                      !["x"] = x, !["y"] = JsonInt(450)] :
        n \in {JsonAbsent, JsonStr("OK")},
        a \in {JsonAbsent, JsonStr("btn1")},
        x \in {JsonAbsent, JsonInt(300), JsonInt(5 - Pow2(I32Bits))}}

CommandCalls ==
    {Call("execute_command",
          [cmd |-> [command_id |-> "test-id", action |-> a, parameters |-> ps],
           windows |-> TRUE, config |-> e.config, os |-> e.os]) :
        a \in Actions, ps \in ClickTargets \cup OtherMaps, e \in Environments}
    \cup
    {Call("execute_command",
          [cmd |-> [command_id |-> "test-id", action |-> a, parameters |-> ps],
           windows |-> w, config |-> DefaultConfig, os |-> OsFine]) :
        a \in Actions, ps \in ClickMaps \cup OtherMaps, w \in BOOLEAN}
    \cup
    {Call("execute_command",
          [cmd |-> [command_id |-> "c2", action |-> a, parameters |-> NoParams],
           windows |-> w, config |-> DefaultConfig, os |-> OsFine]) :
        a \in Actions, w \in BOOLEAN}

CallExecuteCommand ==
    /\ call_pc = "call"
    /\ call_fn = "execute_command"
    /\ call_ret' = execute_command_dispatch(call_args.cmd, call_args.windows,
                                            call_args.config, call_args.os)
    /\ call_pc' = "ret"
    /\ UNCHANGED <<call_fn, call_args>>
    /\ UNCHANGED not_call

\* --------------------------------------------- specification SpecCommand
InitCommand ==
    /\ \E c \in CommandCalls : call_fn = c.fn /\ call_args = c.args
    /\ call_ret = <<>>
    /\ call_pc = "call"
    /\ NetIdle
    /\ ThreadsIdle
    /\ BackoffIdle
    /\ ProducersIdle
    /\ UiaIdle
    /\ ScreenshotIdle

NextCommand ==
    \/ CallExecuteCommand

SpecCommand == InitCommand /\ [][NextCommand]_vars

\* ------------------------------------------------------ claims, commands
\* the words of pat occur in the message, next to each other and in order
Mentions(error, pat) ==
    /\ error # NoneOpt
    /\ \E i \in 1..(Len(error[1]) - Len(pat) + 1) :
          SubSeq(error[1], i, i + Len(pat) - 1) = pat

\* C29: execute_command with an action that is none of observe, click,
\* type_text, send_keys, open_application, focus_window, scroll, double_click,
\* right_click returns ok = false with an error containing "unknown action"
\* and performs no OS action, on either build.
C29_UnknownAction ==
    (Returned("execute_command") /\ call_args.cmd.action \notin KnownActions)
        => /\ call_ret.res.ok = FALSE
           /\ Mentions(call_ret.res.error, <<"unknown", "action">>)
           /\ call_ret.res.command_id = call_args.cmd.command_id
           /\ call_ret.os = <<>>

\* an action that differs from click only in case was refused on Windows
C29_Witness ==
    /\ Returned("execute_command")
    /\ call_args.cmd.action = "Click"
    /\ call_args.windows
    /\ call_args.cmd.parameters["x"] = JsonInt(300)
    /\ call_ret.res.ok = FALSE
    /\ call_ret.res.error = << <<"unknown", "action", ":", "Click">> >>
    /\ call_ret.os = <<>>

\* click without a usable target: no name, no automation_id, x or y missing,
\* not an integer or negative
ClickWithoutTarget(cmd) ==
    /\ cmd.action = "click"
    /\ str_param(cmd, "name", "") = ""
    /\ str_param(cmd, "automation_id", "") = ""
    /\ (i64_param(cmd, "x", -1) < 0 \/ i64_param(cmd, "y", -1) < 0)

\* C30 as stated: on a non-Windows build execute_command returns ok = false
\* with an error containing "requires Windows" and attempts no OS action, for
\* every recognised action and every parameter map.
C30_RequiresWindows ==
    (Returned("execute_command") /\ ~call_args.windows
        /\ call_args.cmd.action \in KnownActions)
        => /\ call_ret.res.ok = FALSE
           /\ Mentions(call_ret.res.error, <<"requires", "Windows">>)
           /\ call_ret.os = <<>>

\* C30 amended: on a non-Windows build execute_command returns ok = false
\* and attempts no OS action for every recognised action and every parameter
\* map; the error contains "requires Windows", except that click with
\* neither name nor automation_id and with x or y missing or negative fails
\* with the error naming the parameters that click requires.
C30_RequiresWindowsOrClickTarget ==
    (Returned("execute_command") /\ ~call_args.windows
        /\ call_args.cmd.action \in KnownActions)
        => /\ call_ret.res.ok = FALSE
           /\ call_ret.os = <<>>
           /\ IF ClickWithoutTarget(call_args.cmd)
              THEN /\ Mentions(call_ret.res.error, <<"click", "requires">>)
                   /\ Mentions(call_ret.res.error, <<"'x'/'y'">>)
                   /\ ~Mentions(call_ret.res.error, <<"requires", "Windows">>)
              ELSE Mentions(call_ret.res.error,
                            <<call_args.cmd.action, "requires", "Windows">>)

\* off Windows a click at (300, 450) was refused for the platform
C30_Witness ==
    /\ Returned("execute_command")
    /\ ~call_args.windows
    /\ call_args.cmd.action = "click"
    /\ call_args.cmd.parameters["x"] = JsonInt(300)
    /\ call_args.cmd.parameters["y"] = JsonInt(450)
    /\ call_ret.res.ok = FALSE
    /\ call_ret.res.error = << <<"click", "requires", "Windows">> >>

\* ------------------------------------------- claims, the Windows handlers
\* x or y of the command is missing, not an integer, or negative
NoCoordinates(cmd) ==
    i64_param(cmd, "x", -1) < 0 \/ i64_param(cmd, "y", -1) < 0

\* the calls of an os log that act on the desktop: input events, a UIA
\* Invoke or SetValue, a started application, a focused window
Effects(os) ==
    SelectSeq(os, LAMBDA c : c.call \in {"SendInput", "Invoke", "SetValue",
                                         "ShellExecuteW", "SetForegroundWindow"})

\* the element searches of an os log
Searches(os) == SelectSeq(os, LAMBDA c : c.call = "FindFirst")

\* C31: click resolves its target by automation_id when given, else by name,
\* and uses the x/y coordinates only when both are empty; with name and
\* automation_id both empty and x or y missing or negative it returns
\* ok = false with an error naming the required parameters ('name',
\* 'automation_id', 'x'/'y') and injects no input.
C31_ClickTarget ==
    (Returned("execute_command") /\ call_args.cmd.action = "click")
        => LET cmd == call_args.cmd
               name == str_param(cmd, "name", "")
               automation_id == str_param(cmd, "automation_id", "")
               x == i64_param(cmd, "x", -1)
               y == i64_param(cmd, "y", -1)
               searches == Searches(call_ret.os)
               inputs == SelectSeq(call_ret.os, LAMBDA c : c.call = "SendInput")
           IN  /\ (call_args.windows /\ call_args.os.uia_init = "ok"
                      /\ automation_id # "")
                     => searches = <<OsCall("FindFirst",
                                        [prop |-> "UIA_AutomationIdPropertyId",
                                         val |-> automation_id])>>
               /\ (call_args.windows /\ call_args.os.uia_init = "ok"
                      /\ automation_id = "" /\ name # "")
                     => searches = <<OsCall("FindFirst",
                                        [prop |-> "UIA_NamePropertyId",
                                         val |-> name])>>
               /\ (name # "" \/ automation_id # "")
                     => \A i \in 1..Len(inputs) :
                           \A k \in 1..Len(inputs[i].arg) :
                               ~(inputs[i].arg[k].x = x /\ inputs[i].arg[k].y = y)
               /\ (name = "" /\ automation_id = "")
                     => searches = <<>>
               /\ (name = "" /\ automation_id = "" /\ NoCoordinates(cmd))
                     => /\ call_ret.res.ok = FALSE
                        /\ Mentions(call_ret.res.error, <<"'name'">>)
                        /\ Mentions(call_ret.res.error, <<"'automation_id'">>)
                        /\ Mentions(call_ret.res.error, <<"'x'/'y'">>)
                        /\ call_ret.os = <<>>

\* the same with x and y inside the range of an i32
C31_ClickTargetInRange ==
    (/\ i64_param(call_args.cmd, "x", -1) = as_i32(i64_param(call_args.cmd, "x", -1))
     /\ i64_param(call_args.cmd, "y", -1) = as_i32(i64_param(call_args.cmd, "y", -1)))
        => C31_ClickTarget

\* the parts of a combo that are modifier words, as virtual keys, in the
\* order listed
ListedModifiers(keys) ==
    LET mods == SelectSeq(split(keys, "+"), LAMBDA p : modifier_vk(p) # NoneOpt)
    IN  [i \in 1..Len(mods) |-> modifier_vk(mods[i])[1]]

\* the terminal key of a combo: its last part that is not a modifier word,
\* looked up in the key table; None when there is no such part or the table
\* does not have it
TerminalKey(keys) ==
    LET others == SelectSeq(split(keys, "+"), LAMBDA p : modifier_vk(p) = NoneOpt)
    IN  IF others = <<>> THEN NoneOpt ELSE parse_vk(others[Len(others)])

\* how many events of an os log are SendInput of one key event (vk, flags)
KeyCount(os, vk, flags) ==
    Cardinality({i \in 1..Len(os) :
        os[i] = OsCall("SendInput", <<KeyInput(vk, flags)>>)})

\* C32: for a send_keys combo that parses successfully, the injected key
\* events are, in order: key-down of every modifier in the order listed,
\* key-down then key-up of the terminal key, key-up of every modifier in
\* reverse order; every key pressed is released and the terminal key is
\* pressed exactly once.  A combo whose terminal key is not in the key table
\* fails with ok = false and injects no key event.
C32_SendKeysOrder ==
    (Returned("execute_command") /\ call_args.windows
        /\ call_args.cmd.action = "send_keys"
        /\ str_param(call_args.cmd, "keys", <<>>) # <<>>)
        => LET keys == str_param(call_args.cmd, "keys", <<>>)
               mods == ListedModifiers(keys)
               n == Len(mods)
               key == TerminalKey(keys)
               os == call_ret.os
           IN  IF key # NoneOpt
               THEN /\ call_ret.res.ok
                    /\ Len(os) = 2 * n + 2
                    /\ \A i \in 1..n :
                          os[i] = OsCall("SendInput", <<KeyInput(mods[i], "down")>>)
                    /\ os[n + 1] = OsCall("SendInput", <<KeyInput(key[1], "down")>>)
                    /\ os[n + 2] = OsCall("SendInput", <<KeyInput(key[1], "keyup")>>)
                    /\ \A i \in 1..n :
                          os[n + 2 + i] =
                              OsCall("SendInput", <<KeyInput(mods[n + 1 - i], "keyup")>>)
                    /\ \A i \in 1..Len(os) :
                          KeyCount(os, os[i].arg[1].vk, "down")
                              = KeyCount(os, os[i].arg[1].vk, "keyup")
                    /\ KeyCount(os, key[1], "down") = 1
               ELSE /\ call_ret.res.ok = FALSE
                    /\ Mentions(call_ret.res.error, <<"unknown", "key">>)
                    /\ os = <<>>

\* Ctrl+Shift+S went out as ctrl, shift, s down, s up, shift up, ctrl up
C32_Witness ==
    /\ Returned("execute_command")
    /\ call_args.windows
    /\ call_args.cmd.action = "send_keys"
    /\ str_param(call_args.cmd, "keys", <<>>)
          = <<"C","t","r","l","+","S","h","i","f","t","+","S">>
    /\ call_ret.res.ok
    /\ call_ret.os =
          << OsCall("SendInput", <<KeyInput("VK_CONTROL", "down")>>),
             OsCall("SendInput", <<KeyInput("VK_SHIFT", "down")>>),
             OsCall("SendInput", <<KeyInput("s", "down")>>),
             OsCall("SendInput", <<KeyInput("s", "keyup")>>),
             OsCall("SendInput", <<KeyInput("VK_SHIFT", "keyup")>>),
             OsCall("SendInput", <<KeyInput("VK_CONTROL", "keyup")>>) >>

\* a combo that ends in a key the table does not have injected nothing
C32_WitnessUnknown ==
    /\ Returned("execute_command")
    /\ call_args.windows
    /\ call_args.cmd.action = "send_keys"
    /\ str_param(call_args.cmd, "keys", <<>>)
          = <<"c","t","r","l","+","b","o","g","u","s">>
    /\ call_ret.res.ok = FALSE
    /\ call_ret.os = <<>>

\* the windows of a desktop that are visible and whose title contains the
\* pattern, case-insensitively
VisibleMatches(top_windows, pattern) ==
    {i \in 1..Len(top_windows) :
        /\ top_windows[i].visible
        /\ contains(to_lowercase(top_windows[i].title), to_lowercase(pattern))}

\* C33: focus_window with neither title nor process given fails; given a
\* title or a process pattern it brings to the foreground the first window in
\* enumeration order that is visible and matches the pattern (title
\* containment, case-insensitive) and returns ok = true; it returns ok = false
\* only when no visible window matches.
C33_FocusWindow ==
    (Returned("execute_command") /\ call_args.windows
        /\ call_args.cmd.action = "focus_window")
        => LET title == str_param(call_args.cmd, "title", <<>>)
               process == str_param(call_args.cmd, "process", <<>>)
               pattern == IF title # <<>> THEN title ELSE process
               hits == VisibleMatches(call_args.os.top_windows, pattern)
           IN  IF title = <<>> /\ process = <<>>
               THEN call_ret.res.ok = FALSE /\ Effects(call_ret.os) = <<>>
               ELSE IF hits = {}
               THEN call_ret.res.ok = FALSE /\ Effects(call_ret.os) = <<>>
               ELSE /\ call_ret.res.ok
                    /\ Effects(call_ret.os) =
                          <<OsCall("SetForegroundWindow",
                                   CHOOSE i \in hits : \A j \in hits : i <= j)>>

\* the same for the commands that give a title
C33_FocusWindowByTitle ==
    str_param(call_args.cmd, "title", <<>>) # <<>> => C33_FocusWindow

\* the keys of a serialized frame
FrameKeys(frame) == {p[1] : p \in frame}

\* C34: every CommandResult returned by execute_command has type
\* "command_result" and the command_id of the command it answers; ok is true
\* exactly when error is absent; a failure result has an empty result map and
\* carries no screenshot_b64 and no uia; absent optional fields are omitted
\* from the serialized frame and present ones are included.
C34_CommandResultShape ==
    Returned("execute_command")
        => LET res == call_ret.res
               frame == serialize(res)
           IN  /\ res.msg_type = "command_result"
               /\ <<"type", "command_result">> \in frame
               /\ res.command_id = call_args.cmd.command_id
               /\ <<"command_id", call_args.cmd.command_id>> \in frame
               /\ res.ok <=> (res.error = NoneOpt)
               /\ ~res.ok => /\ res.result = {}
                             /\ res.screenshot_b64 = NoneOpt
                             /\ res.uia = NoneOpt
               /\ {"type", "command_id", "ok", "result"} \subseteq FrameKeys(frame)
               /\ "msg_type" \notin FrameKeys(frame)
               /\ ("screenshot_b64" \in FrameKeys(frame))
                      <=> (res.screenshot_b64 # NoneOpt)
               /\ ("uia" \in FrameKeys(frame)) <=> (res.uia # NoneOpt)
               /\ ("error" \in FrameKeys(frame)) <=> (res.error # NoneOpt)
               /\ res.screenshot_b64 # NoneOpt
                      => <<"screenshot_b64", res.screenshot_b64[1]>> \in frame
               /\ res.uia # NoneOpt => <<"uia", res.uia[1]>> \in frame
               /\ res.error # NoneOpt => <<"error", res.error[1]>> \in frame

\* an observe that came back with a screenshot and a UIA tree, both in the
\* frame, and no error key
C34_Witness ==
    /\ Returned("execute_command")
    /\ call_args.windows
    /\ call_args.cmd.action = "observe"
    /\ call_ret.res.ok
    /\ call_ret.res.screenshot_b64 = <<"b64">>
    /\ call_ret.res.uia = <<"tree">>
    /\ FrameKeys(serialize(call_ret.res))
          = {"type", "command_id", "ok", "result", "screenshot_b64", "uia"}

\* a failure whose frame has the error and neither screenshot nor uia
C34_WitnessFailure ==
    /\ Returned("execute_command")
    /\ call_args.cmd.command_id = "c2"
    /\ call_ret.res.ok = FALSE
    /\ FrameKeys(serialize(call_ret.res))
          = {"type", "command_id", "ok", "result", "error"}

\* the failure messages a handler gives for a parameter that is missing,
\* empty or out of range
ParameterFailure(error) ==
    \/ Mentions(error, <<"requires", "'name'">>)
    \/ Mentions(error, <<"requires", "'text'", "parameter">>)
    \/ Mentions(error, <<"requires", "'keys'", "parameter">>)
    \/ Mentions(error, <<"unknown", "key">>)
    \/ Mentions(error, <<"requires", "'application'", "parameter">>)
    \/ Mentions(error, <<"requires", "'title'", "or", "'process'", "parameter">>)
    \/ Mentions(error, <<"unknown", "scroll", "direction">>)

\* C40: every command handler validates its parameters before acting: when
\* execute_command returns a failure caused by a missing, empty or
\* out-of-range parameter (click/double_click/right_click without target,
\* type_text without text, send_keys without or with unknown keys,
\* open_application without application, focus_window without title or
\* process, scroll with a direction other than up or down), no input event
\* has been injected, no application started and no window focused.
C40_ValidateBeforeActing ==
    (Returned("execute_command") /\ call_ret.res.ok = FALSE
        /\ ParameterFailure(call_ret.res.error))
        => /\ Effects(call_ret.os) = <<>>
           /\ call_ret.os = <<>>

\* on Windows a scroll to the side was refused and the wheel was not turned
C40_Witness ==
    /\ Returned("execute_command")
    /\ call_args.windows
    /\ call_args.cmd.action = "scroll"
    /\ str_param(call_args.cmd, "direction", "down") = "sideways"
    /\ call_ret.res.ok = FALSE
    /\ Mentions(call_ret.res.error, <<"unknown", "scroll", "direction", ":", "sideways">>)
    /\ call_ret.os = <<>>

\* ================================ store_in_buffer from two threads at once
\* the thread of the message loop, which runs the hook callback, and the
\* network thread, which runs the command handlers
Threads == {"hook", "net"}

\* calls of each thread
MaxThreadStores == 4

\* Mutex::lock() returns when no other guard is alive
\* (mutant: a lock that excludes nobody)
lock_granted_always(holder) == TRUE

lock_granted(holder) == holder = NoThread

\* `if buf.len() >= RING_BUFFER_SIZE { buf.pop_front(); }`
evict_if_full(buf) == IF Len(buf) >= RING_BUFFER_SIZE THEN Tail(buf) ELSE buf

\* `buf.push_back(data)`
push_back(buf, data) == Append(buf, data)

\* the record of one thread
AtPc(t, at) == thr[t].pc = at
Goto(t, at) == [thr EXCEPT ![t].pc = at]

\* ----------------------------------------- specification SpecStoreThreads
\* run() has initialised the buffer before it started a thread
InitStoreThreads ==
    /\ SCREENSHOT_BUFFER = init_screenshot_buffer(NoneOpt)
    /\ stored = <<>>
    /\ thr = [t \in Threads |-> [pc |-> "idle", data |-> <<t, 0>>, calls |-> 0]]
    /\ mtx = NoThread
    /\ NetIdle
    /\ BackoffIdle
    /\ ProducersIdle
    /\ UiaIdle
    /\ CallsIdle

\* capture_screenshot calls store_in_buffer(data); the cell is set
StoreCall(t) ==
    /\ AtPc(t, "idle")
    /\ thr[t].calls < MaxThreadStores
    /\ SCREENSHOT_BUFFER # NoneOpt
    /\ thr' = [thr EXCEPT ![t] = [pc |-> "lock",
                                  data |-> <<t, thr[t].calls + 1>>,
                                  calls |-> thr[t].calls + 1]]
    /\ UNCHANGED <<mtx, shotvars>>
    /\ UNCHANGED <<netvars, bovars, prodvars, uiavars, callvars>>

\* `if let Ok(mut buf) = buffer.lock()`
StoreLock(t) ==
    /\ AtPc(t, "lock")
    /\ lock_granted(mtx)
    /\ mtx' = t
    /\ thr' = Goto(t, "check")
    /\ UNCHANGED shotvars
    /\ UNCHANGED <<netvars, bovars, prodvars, uiavars, callvars>>

\* the length test and pop_front
StoreEvict(t) ==
    /\ AtPc(t, "check")
    /\ SCREENSHOT_BUFFER' = Some(evict_if_full(SCREENSHOT_BUFFER[1]))
    /\ thr' = Goto(t, "push")
    /\ UNCHANGED <<mtx, stored>>
    /\ UNCHANGED <<netvars, bovars, prodvars, uiavars, callvars>>

\* push_back; stored lists the items in the order they are pushed
StorePush(t) ==
    /\ AtPc(t, "push")
    /\ SCREENSHOT_BUFFER' = Some(push_back(SCREENSHOT_BUFFER[1], thr[t].data))
    /\ stored' = Append(stored, [data |-> thr[t].data, initialised |-> TRUE])
    /\ thr' = Goto(t, "unlock")
    /\ UNCHANGED mtx
    /\ UNCHANGED <<netvars, bovars, prodvars, uiavars, callvars>>

\* the guard is dropped at the end of the block
StoreUnlock(t) ==
    /\ AtPc(t, "unlock")
    /\ mtx' = NoThread
    /\ thr' = Goto(t, "idle")
    /\ UNCHANGED shotvars
    /\ UNCHANGED <<netvars, bovars, prodvars, uiavars, callvars>>

NextStoreThreads ==
    \E t \in Threads :
        \/ StoreCall(t)
        \/ StoreLock(t)
        \/ StoreEvict(t)
        \/ StorePush(t)
        \/ StoreUnlock(t)

SpecStoreThreads == InitStoreThreads /\ [][NextStoreThreads]_vars

\* --------------------------------------- claims, concurrent ring buffer
\* seq ends with suffix
EndsWith(seq, suffix) ==
    /\ Len(suffix) <= Len(seq)
    /\ suffix = SubSeq(seq, Len(seq) - Len(suffix) + 1, Len(seq))

\* the order of the pushes is a linearization of the calls: every item
\* pushed is the item of a call that was made, no item is pushed twice, the
\* item of every call that has returned has been pushed, and the items of
\* one thread are pushed in the order that thread made its calls
PushesLinearize ==
    /\ \A i \in 1..Len(StoredItems) :
          LET d == StoredItems[i]
          IN  d[1] \in Threads /\ d[2] \in 1..thr[d[1]].calls
    /\ \A i, j \in 1..Len(StoredItems) :
          i < j => /\ StoredItems[i] # StoredItems[j]
                   /\ StoredItems[i][1] = StoredItems[j][1]
                         => StoredItems[i][2] < StoredItems[j][2]
    /\ \A t \in Threads : \A k \in 1..thr[t].calls :
          (k < thr[t].calls \/ thr[t].pc \in {"unlock", "idle"})
              => \E i \in 1..Len(StoredItems) : StoredItems[i] = <<t, k>>

\* C36: when store_in_buffer is called concurrently from the hook-callback
\* thread and the network thread, the evict-then-push step is atomic under
\* the mutex: in every interleaving the buffer length never exceeds 5, no
\* pushed item is lost other than by FIFO eviction, and the content is the
\* last 5 items of some linearization of the pushes.
C36_ConcurrentStores ==
    LET buf == SCREENSHOT_BUFFER[1]
        n == Len(StoredItems)
        inside == {t \in Threads : thr[t].pc \in {"check", "push", "unlock"}}
    IN  /\ Len(buf) <= 5
        /\ PushesLinearize
        /\ EndsWith(StoredItems, buf)
        /\ mtx = NoThread => buf = LastOf(StoredItems, IF n < 5 THEN n ELSE 5)
        /\ Cardinality(inside) <= 1

\* both threads have stored four items each, the network thread pushed
\* between two pushes of the hook thread, and three items were evicted
C36_Witness ==
    /\ AtPc("hook", "idle") /\ AtPc("net", "idle")
    /\ thr["hook"].calls = 4 /\ thr["net"].calls = 4
    /\ Len(StoredItems) = 8
    /\ StoredItems[1] = <<"hook", 1>>
    /\ StoredItems[2] = <<"net", 1>>
    /\ StoredItems[3] = <<"hook", 2>>
    /\ SCREENSHOT_BUFFER[1] = LastOf(StoredItems, 5)
    /\ \E i, j \in 1..5 : /\ SCREENSHOT_BUFFER[1][i][1] = "hook"
                          /\ SCREENSHOT_BUFFER[1][j][1] = "net"

\* ============================ allow_uia_snapshot from two threads at once
\* `if last.elapsed() < throttle`
uia_throttled(last, clock, throttle) == clock - last < throttle

\* who holds the guard `last` after the test: it lives to the end of the
\* function
\* (mutant: the guard is dropped after the test and taken again without
\* waiting for the assignment)
guard_dropped_after_check(t) == NoThread

guard_after_check(t) == t

\* ------------------------------------------ specification SpecUiaThreads
InitUiaThreads ==
    /\ uia_config \in [uia_enabled : {TRUE}, uia_throttle : {0, 1, 2},
                       uia_text_max : {0}, uia_max_depth : {0}]
    /\ uia_clock = 0
    /\ UIA_LAST_SNAPSHOT = NoneOpt
    /\ uia_calls = <<>>
    /\ uia_last = NoneOpt
    /\ thr = [t \in Threads |-> [pc |-> "idle", calls |-> 0]]
    /\ mtx = NoThread
    /\ NetIdle
    /\ BackoffIdle
    /\ ProducersIdle
    /\ ScreenshotIdle
    /\ CallsIdle

UnchangedByAllow ==
    /\ UNCHANGED <<uia_config, uia_last>>
    /\ UNCHANGED <<netvars, bovars, prodvars, shotvars, callvars>>

\* time passes, at any point of either thread
UiaThreadsTick ==
    /\ uia_clock < MaxUiaTime
    /\ uia_clock' = uia_clock + 1
    /\ UNCHANGED <<UIA_LAST_SNAPSHOT, uia_calls, thrvars>>
    /\ UnchangedByAllow

\* uia_snapshot, called by build_event or by handle_observe, calls
\* allow_uia_snapshot(config.uia_throttle)
AllowCall(t) ==
    /\ AtPc(t, "idle")
    /\ thr[t].calls < MaxUiaCalls
    /\ thr' = [thr EXCEPT ![t] = [pc |-> "init", calls |-> thr[t].calls + 1]]
    /\ UNCHANGED <<uia_clock, UIA_LAST_SNAPSHOT, uia_calls, mtx>>
    /\ UnchangedByAllow

\* UIA_LAST_SNAPSHOT.get_or_init(|| Mutex::new(Instant::now() - throttle))
AllowGetOrInit(t) ==
    /\ AtPc(t, "init")
    /\ UIA_LAST_SNAPSHOT' = IF UIA_LAST_SNAPSHOT = NoneOpt
                            THEN Some(uia_clock - uia_config.uia_throttle)
                            ELSE UIA_LAST_SNAPSHOT
    /\ thr' = Goto(t, "lock")
    /\ UNCHANGED <<uia_clock, uia_calls, mtx>>
    /\ UnchangedByAllow

\* lock.lock().unwrap()
AllowLock(t) ==
    /\ AtPc(t, "lock")
    /\ lock_granted(mtx)
    /\ mtx' = t
    /\ thr' = Goto(t, "check")
    /\ UNCHANGED <<uia_clock, UIA_LAST_SNAPSHOT, uia_calls>>
    /\ UnchangedByAllow

\* the test of the elapsed time; `return false` drops the guard
AllowCheck(t) ==
    /\ AtPc(t, "check")
    /\ IF uia_throttled(UIA_LAST_SNAPSHOT[1], uia_clock, uia_config.uia_throttle)
       THEN /\ uia_calls' = Append(uia_calls, [at |-> uia_clock,
                                               granted |-> FALSE, by |-> t])
            /\ mtx' = NoThread
            /\ thr' = Goto(t, "idle")
       ELSE /\ mtx' = guard_after_check(t)
            /\ thr' = Goto(t, "update")
            /\ UNCHANGED uia_calls
    /\ UNCHANGED <<uia_clock, UIA_LAST_SNAPSHOT>>
    /\ UnchangedByAllow

\* `*last = Instant::now(); true`, and the guard is dropped
AllowUpdate(t) ==
    /\ AtPc(t, "update")
    /\ UIA_LAST_SNAPSHOT' = Some(uia_clock)
    /\ uia_calls' = Append(uia_calls, [at |-> uia_clock,
                                       granted |-> TRUE, by |-> t])
    /\ mtx' = NoThread
    /\ thr' = Goto(t, "idle")
    /\ UNCHANGED uia_clock
    /\ UnchangedByAllow

NextUiaThreads ==
    \/ UiaThreadsTick
    \/ \E t \in Threads :
          \/ AllowCall(t)
          \/ AllowGetOrInit(t)
          \/ AllowLock(t)
          \/ AllowCheck(t)
          \/ AllowUpdate(t)

SpecUiaThreads == InitUiaThreads /\ [][NextUiaThreads]_vars

\* -------------------------------------------- claims, concurrent throttle
\* C37: when allow_uia_snapshot is called concurrently from the hook-callback
\* thread and the network thread, the check and the update of the shared
\* timestamp are one atomic step: in every interleaving at most one caller is
\* granted within any throttle window, so a snapshot granted to one thread
\* makes the other thread's call inside that window return None.
C37_ConcurrentThrottle ==
    /\ \A i, j \in 1..Len(uia_calls) :
          (i < j /\ uia_calls[i].granted
                 /\ uia_calls[j].at - uia_calls[i].at < uia_config.uia_throttle)
              => ~uia_calls[j].granted
    /\ Cardinality({t \in Threads : thr[t].pc \in {"check", "update"}}) <= 1
    /\ \A t \in Threads : thr[t].pc \in {"check", "update"} => mtx = t

\* the hook thread was granted at time 1; the network thread, which had
\* entered the function before that grant, was refused at time 2, inside the
\* window of 2; the hook thread was granted again at time 3
C37_Witness ==
    /\ uia_config.uia_throttle = 2
    /\ Len(uia_calls) >= 3
    /\ uia_calls[1] = [at |-> 1, granted |-> TRUE, by |-> "hook"]
    /\ uia_calls[2] = [at |-> 2, granted |-> FALSE, by |-> "net"]
    /\ uia_calls[3] = [at |-> 3, granted |-> TRUE, by |-> "hook"]

\* ====================================== claims, the loop of network_worker
\* the step is a step of the worker (every statement of the loop moves pc)
WorkerStep == pc' # pc

\* what the steps of the other blocks leave alone
OutboundState == <<ws, last_attempt, backoff_ms, fails, conns, rx, delivery>>

C38_FlagOnlyGatesCommands ==
    [][ /\ ~config.command_enabled
              => /\ read_result' = "none"
                 /\ inbound' = <<>> /\ replies' = <<>> /\ executed' = <<>>
        /\ (WorkerStep /\ pc = "read") => UNCHANGED OutboundState
      ]_vars

\* C38 amended: when command_enabled is false, network_worker never reads
\* from the socket: no command is executed and no pong or command_result is
\* sent; outbound event delivery and reconnection go on as in an iteration
\* with command_enabled true whose read finds nothing, except that a broken
\* connection is dropped only when a send fails, while with command_enabled
\* true a failed read drops it as well.
C38_NoReadWhenDisabled ==
    [][ /\ ~config.command_enabled
              => /\ read_result' = "none"
                 /\ inbound' = <<>> /\ replies' = <<>> /\ executed' = <<>>
        /\ (WorkerStep /\ pc = "read" /\ ~config.command_enabled)
              => UNCHANGED OutboundState /\ pc' = "connect"
        /\ (WorkerStep /\ pc = "read" /\ config.command_enabled
                /\ read_result' \in {"none", "would_block"})
              => UNCHANGED OutboundState /\ pc' = "connect"
        /\ (WorkerStep /\ pc = "read" /\ ws' # ws)
              => /\ config.command_enabled
                 /\ read_result' = "error"
                 /\ ws' = None
        /\ (~config.command_enabled /\ ws # None /\ ws' = None)
              => /\ pc = "recv"
                 /\ NewAttempts # <<>>
                 /\ NewAttempts[1].path = "ws" /\ ~NewAttempts[1].ok
      ]_vars

\* with the flag off the worker connected, delivered an event over the
\* stream and went through the read block without reading
C38_Witness ==
    /\ ~config.command_enabled
    /\ pc = "connect"
    /\ ws # None
    /\ read_result = "none"
    /\ Len(delivery) = 1 /\ delivery[1].path = "ws" /\ delivery[1].ok
    /\ inbound = <<>>

\* the replies that answer inbound frame number src
RepliesTo(log, src) == {i \in 1..Len(log) : log[i].src = src}

\* C39: a command's result is sent at most once: if sending the
\* command_result frame fails, the result is discarded (it is not re-sent,
\* not put on the outbound channel and not sent through the HTTP fallback)
\* and the command is not executed again.
C39_ResultSentAtMostOnce ==
    [][ /\ \A src \in 1..Len(inbound') :
              /\ Cardinality(RepliesTo(replies', src)) <= 1
              /\ Cardinality(RepliesTo(executed', src)) <= 1
        /\ (NewReplies # <<>> /\ NewReplies[1].type = "command_result"
               /\ ~NewReplies[1].send_ok)
              => /\ Len(NewReplies) = 1
                 /\ Len(executed') = Len(executed) + 1
                 /\ UNCHANGED <<rx, delivery, ws>>
        /\ (~WorkerStep \/ pc # "read") => UNCHANGED <<replies, executed>>
      ]_vars

\* the send of a command's result failed; the next frame was read from the
\* same connection and nothing was sent or executed for the command again
C39_Witness ==
    /\ Len(inbound) = 2
    /\ inbound[1].frame.type = "command"
    /\ Len(replies) = 1
    /\ replies[1].type = "command_result" /\ ~replies[1].send_ok
    /\ replies[1].src = 1
    /\ Len(executed) = 1
    /\ inbound[2].conn = inbound[1].conn
    /\ delivery = <<>>

====
